---- MODULE Spec2Model ----
(***************************************************************************)
(* A model of CMAP, the Call Monitor and Analyzer Program: the SIP dialog  *)
(* tracker (sip_utils.c), the capture session (packet_capture.c), the RTP  *)
(* per-stream sequence analyzer (rtp_utils.c) and the jitter buffer of the *)
(* audio quality engine (audio_quality.c).                                 *)
(*                                                                         *)
(* The program is single-threaded and callback-driven, so every action is  *)
(* one whole call of a handler.  The subsystems are exercised by separate  *)
(* specifications that start from the session main() sets up:              *)
(*   Spec         process_sip_packet fed with arbitrary SIP messages       *)
(*   SpecCapture  the capture callback process_packet, time and signals    *)
(*   FairCapture  SpecCapture with the fairness the scheduling guarantees  *)
(*   SpecStats    update_stream_stats fed with arbitrary sequence numbers  *)
(*   SpecRtp      process_rtp_packet with the reorder buffer in front      *)
(*   SpecJb       the jitter buffer: insert_packet_with_timing and         *)
(*                audio_quality_get_next_packet                            *)
(*   SpecFec      FEC packets stored, lost and recovered                   *)
(*   SpecAudio    audio_quality_process_packet and playout                 *)
(*   SpecStreams  find_or_create_stream for IPv4 and IPv6 frames           *)
(*   SpecMatch    addresses_match on address triples                       *)
(*   SpecJitter   update_jitter_metrics followed by update_stream_stats    *)
(*   SpecOverflow the jitter buffer filled to its capacity                 *)
(*   SpecTable    find_or_create_stream with more sources than slots       *)
(*   SpecSdp      process_sip_packet fed with messages that carry SDP      *)
(*   SpecErrors   process_packet fed with unusable frames                  *)
(*   SpecAuto     process_packet over minutes of a call attempt            *)
(*   SpecShutdown stream creation, a stop request and the cleanup          *)
(*   SpecReorder  the reorder buffer over waits of MAX_REORDER_WAIT_MS     *)
(*   SpecClock    the clock rate and timestamp validation of a stream      *)
(*   SpecPlayout  adjust_playout_delay on an audio context                 *)
(*   SpecBitrate  process_opus_encode and the encoder bitrate              *)
(*   SpecIsolation two RTP streams sharing the reorder buffer              *)
(***************************************************************************)
EXTENDS Integers, Sequences, FiniteSets, TLC

(***************************************************************************)
(* Bounds of the model.                                                    *)
(***************************************************************************)
MaxTime == 6
MaxSipPackets == 3
MaxPackets == 9
CaptureBudget == 3

(***************************************************************************)
(* Program constants.                                                      *)
(***************************************************************************)
RTP_GRACE_PERIOD == 5
RTP_TIMEOUT == 30
AUTO_MODE_TIMEOUT == 300
STATUS_CHECK_INTERVAL == 1
SETUP_TIMEOUT == 60
MAX_ERRORS == 10
MAX_DROPOUT == 3000
MIN_SEQUENTIAL == 2
RTP_SEQ_MOD == 65536
FRAME_SIZE_ARG == 4
MaxSeqPackets == 9
MAX_JITTER_BUFFER_PACKETS == 1000
TARGET_DELAY_MS == 40
MAX_DELAY_MS == 100
MIN_DELAY_MS == 20
DEFAULT_PLAYOUT_DELAY_MS == 40
SAMPLE_RATE == 48000
PLC_FRAME_MS == 20
MaxInserts == 4
MaxGets == 3
MaxFecPackets == 5
MaxAudioPackets == 4
MaxStreamPackets == 3
MaxJitterUpdates == 4
MaxPacketTime == 4
MaxRejected == 2
MaxLookups == 11
MaxSdpMessages == 3
MaxSdpLines == 3
MaxErrorFrames == 11
MaxAutoFrames == 4
MaxAutoTime == 302
MaxReorderTime == 121
MaxClockPackets == 4
MaxClockTime == 3
MaxAdjusts == 60
MaxEncodes == 3
MaxOtherPackets == 2
FullMargin == 2
MAX_OOO_WINDOW == 50
MAX_REORDER_WAIT_MS == 40
REORDER_BUFFER_SIZE == 128
SAMPLES_PER_FRAME == 160
CLOCK_RATE == 8000
FEC_PACKET_INTERVAL == 5
SEQUENCE_HISTORY_SIZE == 32
BITRATE_ADJUSTMENT_STEP == 1000
MIN_BITRATE == 6000
MAX_BITRATE == 64000
CONFIG_BITRATE == 64000
OPUS_FRAME_BYTES == 1920
INET_ADDRSTRLEN == 16
MAX_RTP_STREAMS == 8
JITTER_DIVISOR == 16

VARIABLES
    now,              \* the wall clock read by time(NULL), in seconds
    dialog_state,     \* current_session.dialog.state
    last_bye_seen,    \* current_session.last_bye_seen (0 = never)
    last_sip_seen,    \* current_session.last_sip_seen (0 = never)
    sip_packets,      \* current_session.sip_packets
    last_msg,         \* the SIP message handled by the latest call (observer)
    bye_at,           \* when the BYE or 200-for-BYE that ended the dialog came (observer)
    sip_state,        \* current_session.sip_state
    start_time,       \* current_session.start_time
    last_rtp_seen,    \* current_session.last_rtp_seen (0 = never)
    total_packets,    \* current_session.total_packets
    last_status_check,\* static last_status_check of packet_capture.c
    error_count,      \* static error_count of process_packet
    auto_mode,        \* the --auto flag
    capture_time,     \* the --time budget in seconds (0 = unlimited)
    capture_stopping, \* the atomic stopping flag set by signal_handler
    breakloop,        \* pcap_breakloop has been called: pcap_loop returns
    clean_pos,  \* how far the packets so far follow the clean call (observer)
    stream,           \* one struct rtp_stream, as update_stream_stats sees it
    first_in,         \* the first sequence number fed to the stream (observer)
    last_in,          \* the latest sequence number fed to the stream (observer)
    inorder,          \* every arrival so far was its predecessor + 1 mod 2^16
    increasing,       \* every arrival so far was ahead of its predecessor
    missing,          \* sequence numbers skipped by the arrivals so far
    run,              \* length of the current run of consecutive arrivals
    wraps,            \* times the arrivals crossed from 65535 to a small number
    ctx,              \* one audio_quality_ctx_t: jitter buffer, pointers, stats
    inserted,         \* calls of insert_packet_with_timing so far (observer)
    asked,            \* calls of audio_quality_get_next_packet so far (observer)
    last_out,         \* expected_play_time of the packet handed out last (observer)
    out_sorted,       \* no packet was handed out after one with a later play time
    reorder_buffer,   \* static reorder_buffer of rtp_utils.c: the slots written so far
    reorder_head,     \* static reorder_head of rtp_utils.c
    script,           \* the sequence numbers the network delivers, in order (input)
    delivered,        \* how many of them process_rtp_packet has been given
    fec_buffer,       \* reorder_buffer with the payload fields: the slots written so far
    sent,             \* payload of every packet the sender sent, by sequence number (observer)
    fec_lost,         \* start_seq of the last try_fec_recovery call (0 = none yet)
    recovered,        \* the buffer recover_lost_packet handed to process_rtp_payload
    sequence_history, \* ctx->sequence_history: NULL or the ring of recent sequence numbers
    last_sequence,    \* ctx->last_sequence
    bitrate,          \* the bitrate the Opus encoder is set to (OPUS_GET_BITRATE)
    packet_loss_rate, \* ctx->stats.packet_loss_rate, in thousandths
    audio_calls,      \* calls of audio_quality_process_packet so far (observer)
    audio_in,         \* the sequence argument of the last call, -1 = none (observer)
    audio_size,       \* the payload_size argument of the last call (observer)
    audio_ret,        \* what the last call returned (observer)
    labelled,         \* sequence of the packet the last call inserted, -1 = none (observer)
    streams,          \* session->streams: the records in use, in slot order
    pkts,             \* source, SSRC and stream slot of every RTP packet so far (observer)
    probe,            \* three address strings handed to addresses_match (input)
    verdict,          \* what addresses_match returned for the pairs of probe
    timing,           \* the stream's last_timestamp, transit, jitter and jitter_spikes
    wire_transit,     \* arrival in clock ticks minus RTP timestamp of the last packet (observer)
    last_time,        \* capture second of the last packet, 0 = none (observer)
    insert_ret,       \* what the last insert_packet_with_timing call returned (observer)
    lookup,           \* key of the last find_or_create_stream call and the slot it returned (observer)
    lookups,          \* calls of find_or_create_stream so far (observer)
    stream_info,      \* current_session.stream_info: the descriptors stored, in slot order
    media_lines,      \* m=audio lines in the SDP bodies processed so far (observer)
    frames,           \* calls of process_packet so far (observer)
    fail_class,       \* class of the failure the last frame was, "none" after a handled frame (observer)
    fail_run,         \* failures of class fail_class in a row, up to the last frame (observer)
    global_handle,    \* the pcap handle: "open" or "NULL" (closed)
    global_dumper,    \* the pcap dump file: "open" or "NULL" (closed)
    flushed,          \* the dump file was flushed before it was closed
    audio_ctxs,       \* audio contexts allocated by audio_quality_init and not yet released
    shut,             \* start_capture has returned and main has cleaned up
    rtp_clock,        \* the timestamp fields of one rtp_stream slot
    ts_check,         \* the last validate_rtp_timestamp call of process_rtp_packet
    playout,          \* the playout delay of one audio context and its last adjustment
    encoder,          \* the Opus encoder of one audio context and its last encode
    solo,             \* the stream and the reorder buffer when its packets are fed alone
    other             \* a second RTP stream of the session

sipVars == <<dialog_state, last_bye_seen, last_sip_seen, sip_packets, last_msg, bye_at>>
capVars == <<sip_state, start_time, last_rtp_seen, total_packets, last_status_check,
             error_count, auto_mode, capture_time, capture_stopping, breakloop,
             clean_pos>>
statVars == <<stream, first_in, last_in, inorder, increasing, missing, run, wraps>>

jbVars == <<ctx, inserted, asked, last_out, out_sorted>>

rtpVars == <<reorder_buffer, reorder_head, script, delivered>>

fecVars == <<fec_buffer, sent, fec_lost, recovered>>

audioVars == <<sequence_history, last_sequence, bitrate, packet_loss_rate,
               audio_calls, audio_in, audio_size, audio_ret, labelled>>

tableVars == <<streams, pkts, probe, verdict>>

timingVars == <<timing, wire_transit, last_time>>

extraVars == <<fecVars, audioVars, tableVars, timingVars>>

overflowVars == <<insert_ret>>

lookupVars == <<lookup, lookups>>

sdpVars == <<stream_info, media_lines>>

errVars == <<frames, fail_class, fail_run>>

shutVars == <<global_handle, global_dumper, flushed, audio_ctxs, shut>>

clockVars == <<rtp_clock, ts_check>>

playoutVars == <<playout>>

encoderVars == <<encoder>>

isoVars == <<solo, other>>

qualityVars == <<clockVars, playoutVars, encoderVars, isoVars>>

sessionVars == <<overflowVars, lookupVars, sdpVars, errVars, shutVars, qualityVars>>

mediaVars == <<statVars, jbVars, rtpVars, extraVars, sessionVars>>

vars == <<now, sipVars, capVars, mediaVars>>

(***************************************************************************)
(* SIP messages.  A message is what process_sip_packet can tell apart:     *)
(*   kind    "response" when the text starts with "SIP/2.0 <code>",        *)
(*           "request" when it starts with two blank-separated tokens,     *)
(*           "other" when neither sscanf matches                           *)
(*   code    the status code of a response                                 *)
(*   method  the first token of a request                                  *)
(*   cseq    the method named in the CSeq header ("none": no CSeq header)  *)
(*   tail    the method names that occur in the text after the CSeq        *)
(*           header line (later headers such as Allow, or the body)        *)
(***************************************************************************)
DIALOG_INIT == "INIT"
DIALOG_TRYING == "TRYING"
DIALOG_ESTABLISHED == "ESTABLISHED"
DIALOG_TERMINATED == "TERMINATED"

Methods == {"INVITE", "ACK", "BYE", "CANCEL", "OPTIONS"}
Codes == {100, 180, 200, 404, 486, 487, 603}
CSeqMethods == {"none", "INVITE", "BYE", "OPTIONS"}
Tails == SUBSET {"INVITE", "BYE"}

Response(c, q, t) == [kind |-> "response", code |-> c, method |-> "", cseq |-> q, tail |-> t]
Request(m) == [kind |-> "request", code |-> 0, method |-> m, cseq |-> m, tail |-> {}]
Garbage == [kind |-> "other", code |-> 0, method |-> "", cseq |-> "none", tail |-> {}]
NoMsg == [kind |-> "none", code |-> 0, method |-> "", cseq |-> "none", tail |-> {}]

SipMessages ==
    {Response(200, q, t) : q \in CSeqMethods, t \in Tails}
    \cup {Response(c, "INVITE", {}) : c \in Codes \ {200}}
    \cup {Request(m) : m \in Methods}
    \cup {Garbage}

\* The message is a 200 response whose CSeq header names the method m.
Is200For(msg, m) == msg.kind = "response" /\ msg.code = 200 /\ msg.cseq = m

\* The message is a request of method m.
IsRequest(msg, m) == msg.kind = "request" /\ msg.method = m

\* strstr(cseq, name) with cseq = strstr(sip_msg, "CSeq:"): the search runs from
\* the CSeq header to the end of the message, so it also finds the name in any
\* later header or in the body.
CSeqFinds(msg, name) == msg.cseq # "none" /\ (msg.cseq = name \/ name \in msg.tail)

\* The dialog state process_sip_packet leaves, from state s on message msg.
DialogAfter(s, msg) ==
    IF msg.kind = "response"
    THEN IF msg.code = 200
         THEN IF CSeqFinds(msg, "INVITE") THEN DIALOG_ESTABLISHED
              ELSE IF CSeqFinds(msg, "BYE") THEN DIALOG_TERMINATED
              ELSE s
         ELSE IF msg.code \in {486, 487, 603} THEN DIALOG_TERMINATED
         ELSE s
    ELSE IF msg.kind = "request"
    THEN IF msg.method = "INVITE" THEN DIALOG_TRYING
         ELSE IF msg.method \in {"BYE", "CANCEL"} THEN DIALOG_TERMINATED
         ELSE s
    ELSE s

\* Whether the message takes one of the two branches that handle last_bye_seen.
TakesByeBranch(msg) ==
    \/ msg.kind = "request" /\ msg.method = "BYE"
    \/ msg.kind = "response" /\ msg.code = 200
       /\ ~CSeqFinds(msg, "INVITE") /\ CSeqFinds(msg, "BYE")

\* last_bye_seen after the message: stamped by a BYE branch only when still 0.
LastByeAfter(lbs, msg, t) ==
    IF TakesByeBranch(msg) /\ lbs = 0 THEN t ELSE lbs

\* The message is a BYE request or a 200 response to a BYE.
IsByeOrOkForBye(msg) == IsRequest(msg, "BYE") \/ Is200For(msg, "BYE")

\* The time of the BYE or 200-for-BYE that ended the current dialog: none (0)
\* while the dialog is not TERMINATED, else the time of the first such message
\* that found the dialog alive or ended without one.
ByeAtAfter(at, s, s2, msg, t) ==
    IF s2 # DIALOG_TERMINATED THEN 0
    ELSE IF IsByeOrOkForBye(msg) /\ (s # DIALOG_TERMINATED \/ at = 0) THEN t
    ELSE at

\* process_sip_packet(payload, payload_len, direction) for a non-empty payload.
ProcessSipPacket(msg) ==
    /\ sip_packets' = sip_packets + 1
    /\ last_sip_seen' = now
    /\ dialog_state' = DialogAfter(dialog_state, msg)
    /\ last_bye_seen' = LastByeAfter(last_bye_seen, msg, now)
    /\ last_msg' = msg
    /\ bye_at' = ByeAtAfter(bye_at, dialog_state, dialog_state', msg, now)

\* One second passes on the clock time(NULL) reads while frames are awaited.
Tick ==
    /\ now < MaxTime
    /\ ~breakloop
    /\ now' = now + 1

(***************************************************************************)
(* Sequence accounting of one RTP stream (rtp_utils.c).  uint16 fields are *)
(* kept modulo RTP_SEQ_MOD.  uint32 fields are held as the integer that    *)
(* the C arithmetic yields before reduction modulo 2^32: the bounds keep   *)
(* every such value between -2^31 and 2^31, so a negative value n stands   *)
(* for the unsigned value 2^32 + n.  The floating-point aggregates jitter, *)
(* transit, loss_rate and the jitter-buffer sizing of adapt_jitter_buffer  *)
(* are read by no integer field and are left out.                          *)
(***************************************************************************)
U16(x) == x % RTP_SEQ_MOD

\* find_or_create_stream: memset to zero, then init_quality_params.
FreshStream ==
    [packets_received |-> 0, base_seq |-> 0, max_seq |-> 0, bad_seq |-> 0,
     cycles |-> 0, received |-> 0, lost_packets |-> 0, out_of_order |-> 0,
     probation |-> 0, consecutive_losses |-> 0, mean_frame_size |-> 0,
     last_seq |-> 0, concealed_ms |-> 0]

\* update_quality_metrics(stream, seq, size), run with max_seq already updated.
UpdateQualityMetrics(s, seq) ==
    [s EXCEPT
       !.consecutive_losses =
          IF seq # s.max_seq + 1 /\ seq > s.max_seq
          THEN s.consecutive_losses + (seq - s.max_seq - 1)
          ELSE 0,
       !.mean_frame_size = FRAME_SIZE_ARG]

\* The first packet of a stream initialises the sequence tracking.
FirstPacket(s, seq) ==
    [s EXCEPT !.base_seq = seq, !.max_seq = seq, !.bad_seq = U16(seq + 1),
              !.cycles = 0, !.received = 0, !.probation = MIN_SEQUENTIAL]

\* A packet while the source is on probation; the function returns here.
\* seq == stream->max_seq + 1 is compared after integer promotion.
ProbationPacket(s, seq) ==
    IF seq = s.max_seq + 1
    THEN IF s.probation - 1 = 0
         THEN [s EXCEPT !.probation = 0, !.max_seq = seq,
                        !.base_seq = seq, !.received = 0]
         ELSE [s EXCEPT !.probation = s.probation - 1, !.max_seq = seq]
    ELSE [s EXCEPT !.probation = MIN_SEQUENTIAL - 1, !.max_seq = seq]

\* A packet of a validated source.  Both branches the code takes beyond
\* MAX_DROPOUT count the packet out of order and leave max_seq alone.
ValidPacket(s, seq) ==
    LET udelta == U16(seq - s.max_seq)
        fwd == udelta < MAX_DROPOUT
        cyc == IF fwd /\ seq < s.max_seq THEN s.cycles + RTP_SEQ_MOD ELSE s.cycles
        mx  == IF fwd THEN seq ELSE s.max_seq
        ooo == IF fwd THEN s.out_of_order ELSE s.out_of_order + 1
        extended_seq == cyc + seq
        rcv == s.received + 1
        expected == extended_seq - s.base_seq + 1
    IN  [s EXCEPT !.cycles = cyc, !.max_seq = mx, !.out_of_order = ooo,
                  !.received = rcv, !.lost_packets = expected - rcv]

\* update_stream_stats(stream, seq, timestamp, packet_time)
UpdateStreamStats(s, seq) ==
    LET t == [s EXCEPT !.packets_received = s.packets_received + 1]
    IN  IF t.packets_received = 1 THEN UpdateQualityMetrics(FirstPacket(t, seq), seq)
        ELSE IF t.probation # 0 THEN ProbationPacket(t, seq)
        ELSE UpdateQualityMetrics(ValidPacket(t, seq), seq)

InitStats ==
    /\ stream = FreshStream
    /\ first_in = -1
    /\ last_in = -1
    /\ inorder = TRUE
    /\ increasing = TRUE
    /\ missing = 0
    /\ run = 0
    /\ wraps = 0

(***************************************************************************)
(* The jitter buffer of the audio engine (audio_quality.c).  Times are in  *)
(* microseconds.  ctx.buffer holds the slots written so far; calloc leaves *)
(* every other slot zero.  stats.current_jitter is assigned nowhere in the *)
(* program, so the jitter adjustment of the play time never runs.  The     *)
(* audio payload and the samples concealment synthesises are not modelled. *)
(***************************************************************************)
ZeroPacket == [expected_play_time |-> 0, timestamp |-> 0, arrival_time |-> 0]

Slot(c, i) == IF i \in DOMAIN c.buffer THEN c.buffer[i] ELSE ZeroPacket

\* audio_quality_init_with_config: calloc'ed context and buffer.
\* init_opus_codec fills opus.encoder, decoder, frame_size, max_packet_size
\* and opus_buffer; opus.sample_rate keeps the 0 of calloc.  fault tells
\* that the process has trapped inside a call on this context.
FreshCtx ==
    [buffer |-> <<>>, read_ptr |-> 0, write_ptr |-> 0, buffer_size |-> 0,
     packets_lost |-> 0, plc_used |-> FALSE, plc_duration_ms |-> 0,
     opus_sample_rate |-> 0, fault |-> FALSE]

\* Index of the i-th of the buffer_size entries counted from read_ptr.
EntryIdx(c, i) == (c.read_ptr + i) % MAX_JITTER_BUFFER_PACKETS

\* The insertion point: the first entry that plays later, else write_ptr.
InsertPos(c, ept) ==
    LET later == {i \in 0 .. c.buffer_size - 1 :
                     ept < Slot(c, EntryIdx(c, i)).expected_play_time}
    IN  IF later = {} THEN c.write_ptr
        ELSE EntryIdx(c, CHOOSE i \in later : \A j \in later : i <= j)

\* The shift loop: slot i moves to slot i + 1 for i from move_end - 1 down to
\* move_start, indices modulo the capacity.
ShiftedBuffer(c, insert_pos) ==
    LET move_start == insert_pos
        move_end == IF move_start > c.write_ptr
                    THEN c.write_ptr + MAX_JITTER_BUFFER_PACKETS
                    ELSE c.write_ptr
        targets == {(i + 1) % MAX_JITTER_BUFFER_PACKETS : i \in move_start .. move_end - 1}
    IN  [k \in DOMAIN c.buffer \cup targets |->
            IF k \in targets
            THEN Slot(c, (k - 1 + MAX_JITTER_BUFFER_PACKETS) % MAX_JITTER_BUFFER_PACKETS)
            ELSE c.buffer[k]]

\* insert_packet_with_timing without the overflow test of lines 166-169.
InsertPacketUnchecked(c, packet) ==
    LET ept == packet.arrival_time + TARGET_DELAY_MS * 1000
        stored == [packet EXCEPT !.expected_play_time = ept]
        insert_pos == InsertPos(c, ept)
        shifted == IF c.buffer_size > 0 /\ insert_pos # c.write_ptr
                   THEN ShiftedBuffer(c, insert_pos)
                   ELSE c.buffer
    IN  [c EXCEPT
            !.buffer = [k \in DOMAIN shifted \cup {insert_pos} |->
                           IF k = insert_pos THEN stored ELSE shifted[k]],
            !.write_ptr = IF insert_pos = c.write_ptr
                          THEN (c.write_ptr + 1) % MAX_JITTER_BUFFER_PACKETS
                          ELSE c.write_ptr,
            !.buffer_size = c.buffer_size + 1]

\* insert_packet_with_timing(ctx, packet)
InsertPacketWithTiming(c, packet) ==
    LET ept == packet.arrival_time + TARGET_DELAY_MS * 1000
        stored == [packet EXCEPT !.expected_play_time = ept]
        insert_pos == InsertPos(c, ept)
        shifted == IF c.buffer_size > 0 /\ insert_pos # c.write_ptr
                   THEN ShiftedBuffer(c, insert_pos)
                   ELSE c.buffer
    IN  IF c.buffer_size >= MAX_JITTER_BUFFER_PACKETS
        THEN [c EXCEPT !.packets_lost = c.packets_lost + 1]
        ELSE [c EXCEPT
                !.buffer = [k \in DOMAIN shifted \cup {insert_pos} |->
                               IF k = insert_pos THEN stored ELSE shifted[k]],
                !.write_ptr = IF insert_pos = c.write_ptr
                              THEN (c.write_ptr + 1) % MAX_JITTER_BUFFER_PACKETS
                              ELSE c.write_ptr,
                !.buffer_size = c.buffer_size + 1]

\* What insert_packet_with_timing returns.
InsertReturn(c) == IF c.buffer_size >= MAX_JITTER_BUFFER_PACKETS THEN -1 ELSE 0

\* is_packet_too_late(ctx, timestamp, current_time);
\* timestamp * 1000000 / sample_rate with the fraction 1000000 / 48000 reduced.
IsPacketTooLate(timestamp, current_time) ==
    current_time - ((timestamp * (1000000 \div 8000)) \div (SAMPLE_RATE \div 8000))
        > MAX_DELAY_MS * 1000

\* What audio_quality_get_next_packet does at current_time.
NextPacketOutcome(c, current_time) ==
    IF c.buffer_size = 0 THEN "empty"
    ELSE IF current_time < Slot(c, c.read_ptr).expected_play_time THEN "early"
    ELSE IF IsPacketTooLate(Slot(c, c.read_ptr).timestamp, current_time) THEN "late"
    ELSE "played"

\* The divisor of the statistics update that ends
\* apply_packet_loss_concealment: opus.sample_rate * sizeof(int16_t).
ConcealDivisor(c) == c.opus_sample_rate * 2

\* apply_packet_loss_concealment(ctx, output, size), for every PLC mode: the
\* contexts it can leave.  A division by zero is undefined: the process
\* traps, or goes on with the quotient 0 that a divide instruction without
\* a trap yields.
ApplyPacketLossConcealment(c, size) ==
    IF ConcealDivisor(c) # 0
    THEN {[c EXCEPT !.plc_used = TRUE,
                    !.plc_duration_ms = c.plc_duration_ms
                                           + (size * 1000) \div ConcealDivisor(c)]}
    ELSE {[c EXCEPT !.plc_used = TRUE, !.fault = TRUE],
          [c EXCEPT !.plc_used = TRUE]}

\* audio_quality_get_next_packet(ctx, payload, max_size, current_time)
\* The contexts the call can leave: one, unless concealment divides by 0.
GetNextPacket(c, current_time) ==
    LET outcome == NextPacketOutcome(c, current_time)
    IN  IF outcome = "late"
        THEN {IF d.fault THEN d
              ELSE [d EXCEPT !.plc_duration_ms = d.plc_duration_ms + PLC_FRAME_MS] :
                 d \in ApplyPacketLossConcealment(
                           [c EXCEPT !.packets_lost = c.packets_lost + 1,
                                     !.plc_used = TRUE],
                           OPUS_FRAME_BYTES)}
        ELSE IF outcome = "played"
        THEN {[c EXCEPT !.read_ptr = (c.read_ptr + 1) % MAX_JITTER_BUFFER_PACKETS,
                        !.buffer_size = c.buffer_size - 1]}
        ELSE {c}

InitJb ==
    /\ ctx = FreshCtx
    /\ inserted = 0
    /\ asked = 0
    /\ last_out = -1
    /\ out_sorted = TRUE

(***************************************************************************)
(* The reorder buffer in front of the sequence accounting (rtp_utils.c).   *)
(* reorder_buffer holds the slots written so far, every other slot of the  *)
(* static array is zero (not valid).  handle_out_of_sequence stores no     *)
(* packet data, so generate_fec_packet returns at once and no slot is ever *)
(* an FEC packet.  The timestamp path (validate_rtp_timestamp,             *)
(* update_jitter_metrics) and the audio path (process_rtp_payload) write   *)
(* no field the sequence accounting reads and are left out.                *)
(***************************************************************************)
EmptySlot == [seq |-> 0, arrival_time |-> 0, valid |-> FALSE]

ReorderSlot(buf, i) == IF i \in DOMAIN buf THEN buf[i] ELSE EmptySlot

\* The slots in the order both scans visit them, starting at reorder_head.
ScanIdx(head, i) == (head + i) % REORDER_BUFFER_SIZE

\* store_packet_info: the first slot from reorder_head that is not valid,
\* or -1 when every slot is taken.
StoreIdx(buf, head) ==
    LET free == {i \in 0 .. REORDER_BUFFER_SIZE - 1 : ~ReorderSlot(buf, ScanIdx(head, i)).valid}
    IN  IF free = {} THEN -1
        ELSE ScanIdx(head, CHOOSE i \in free : \A j \in free : i <= j)

\* find_next_packet(stream) at time t: the first valid slot one ahead of
\* last_seq; else the first valid slot nearest ahead of last_seq, once it has
\* waited MAX_REORDER_WAIT_MS; else -1.
FindNextPacket(s, buf, head, t) ==
    LET valid == {i \in 0 .. REORDER_BUFFER_SIZE - 1 : ReorderSlot(buf, ScanIdx(head, i)).valid}
        seq_diff(i) == U16(ReorderSlot(buf, ScanIdx(head, i)).seq - s.last_seq)
        perfect == {i \in valid : seq_diff(i) = 1}
        best == CHOOSE i \in valid :
                   \A j \in valid : seq_diff(i) < seq_diff(j)
                                       \/ (seq_diff(i) = seq_diff(j) /\ i <= j)
    IN  IF perfect # {} THEN ScanIdx(head, CHOOSE i \in perfect : \A j \in perfect : i <= j)
        ELSE IF valid # {}
                /\ t - ReorderSlot(buf, ScanIdx(head, best)).arrival_time >= MAX_REORDER_WAIT_MS
        THEN ScanIdx(head, best)
        ELSE -1

\* The packet is older than the reorder window behind max_seq.
TooOld(s, seq) == seq < s.max_seq /\ U16(s.max_seq - seq) > MAX_OOO_WINDOW

\* handle_out_of_sequence(stream, seq, timestamp, arrival_time): whether the
\* packet is processed now, and the reorder buffer it leaves.
HandleOutOfSequence(s, buf, head, seq, arrival, t) ==
    LET buf_idx == StoreIdx(buf, head)
        stored == [k \in DOMAIN buf \cup {buf_idx} |->
                      IF k = buf_idx
                      THEN [seq |-> seq, arrival_time |-> arrival, valid |-> TRUE]
                      ELSE buf[k]]
    IN  IF TooOld(s, seq) \/ buf_idx < 0
        THEN [process |-> FALSE, buffer |-> buf, head |-> head]
        ELSE IF FindNextPacket(s, stored, head, t) = buf_idx
        THEN [process |-> TRUE,
              buffer |-> [stored EXCEPT ![buf_idx].valid = FALSE],
              head |-> (buf_idx + 1) % REORDER_BUFFER_SIZE]
        ELSE [process |-> FALSE, buffer |-> stored, head |-> head]

\* handle_silence_insertion(stream, seq) for a PCMU stream: try_fec_recovery
\* finds no FEC slot, so the gap is concealed.
HandleSilenceInsertion(s, seq) ==
    LET gap == U16(seq - s.last_seq - 1)
    IN  IF s.last_seq = 0 \/ gap = 0 THEN s
        ELSE [s EXCEPT
                !.concealed_ms = s.concealed_ms
                                   + (gap * SAMPLES_PER_FRAME * 1000) \div CLOCK_RATE,
                !.last_seq = seq]

InitRtp ==
    /\ reorder_buffer = <<>>
    /\ reorder_head = 0
    /\ script = <<>>
    /\ delivered = 0

(***************************************************************************)
(* Forward error correction over the reorder buffer (rtp_utils.c).  A      *)
(* payload is a sequence of bytes; slot i of the array is fec_buffer[i+1]. *)
(***************************************************************************)
RECURSIVE BitXor(_, _)
\* a ^ b on unsigned integers.
BitXor(a, b) ==
    IF a = 0 THEN b
    ELSE IF b = 0 THEN a
    ELSE (((a % 2) + (b % 2)) % 2) + 2 * BitXor(a \div 2, b \div 2)

\* dst[j] ^= src[j] for j < Len(src), inside the bounds of dst.
XorInto(dst, src) ==
    [j \in 1 .. Len(dst) |-> IF j <= Len(src) THEN BitXor(dst[j], src[j]) ELSE dst[j]]

RECURSIVE XorAll(_, _)
\* XorInto applied for every buffer of the sequence srcs in turn.
XorAll(dst, srcs) ==
    IF srcs = <<>> THEN dst ELSE XorAll(XorInto(dst, Head(srcs)), Tail(srcs))

EmptyFecSlot == [seq |-> 0, valid |-> FALSE, data |-> <<>>, is_fec |-> FALSE, fec_data |-> <<>>]

FecSlot(buf, idx) == IF idx + 1 \in DOMAIN buf THEN buf[idx + 1] ELSE EmptyFecSlot

\* The data buffers of the slots idxs (a sequence of indices), in that order.
SlotData(buf, idxs) == [i \in DOMAIN idxs |-> FecSlot(buf, idxs[i]).data]

\* generate_fec_packet(start_idx): the XOR of the slot's data with the data
\* of the FEC_PACKET_INTERVAL - 1 slots that follow it, kept in the slot.
GenerateFecPacket(buf, start_idx) ==
    LET fec_packet == FecSlot(buf, start_idx)
        following == [i \in 1 .. FEC_PACKET_INTERVAL - 1 |->
                         (start_idx + i) % REORDER_BUFFER_SIZE]
        lens == {Len(fec_packet.data)}
                  \cup {Len(FecSlot(buf, following[i]).data) :
                          i \in {k \in DOMAIN following : FecSlot(buf, following[k]).valid}}
        max_len == CHOOSE l \in lens : \A m \in lens : m <= l
        first == [j \in 1 .. max_len |->
                     IF j <= Len(fec_packet.data) THEN fec_packet.data[j] ELSE 0]
        Valid(idx) == FecSlot(buf, idx).valid
    IN  IF ~fec_packet.valid \/ Len(fec_packet.data) = 0 THEN buf
        ELSE [buf EXCEPT ![start_idx + 1] =
                 [@ EXCEPT !.fec_data = XorAll(first, SlotData(buf, SelectSeq(following, Valid))),
                           !.is_fec = TRUE]]

\* store_packet_info(seq, ..., data, data_len) with reorder_head = 0 and no
\* slot released: the packet takes the first free slot, and a packet whose
\* sequence number is a multiple of FEC_PACKET_INTERVAL becomes an FEC packet.
StorePacketInfo(buf, seq, data) ==
    LET idx == Len(buf)
        stored == Append(buf, [EmptyFecSlot EXCEPT !.seq = seq, !.valid = TRUE, !.data = data])
    IN  IF seq % FEC_PACKET_INTERVAL = 0 THEN GenerateFecPacket(stored, idx) ELSE stored

\* try_fec_recovery(stream, start_seq, gap): the index of the first FEC slot
\* whose sequence number lies in (start_seq, start_seq + gap], or -1.
TryFecRecovery(buf, start_seq, gap) ==
    LET found == {i \in 0 .. REORDER_BUFFER_SIZE - 1 :
                     /\ FecSlot(buf, i).valid /\ FecSlot(buf, i).is_fec
                     /\ FecSlot(buf, i).seq > start_seq
                     /\ FecSlot(buf, i).seq <= start_seq + gap}
    IN  IF found = {} THEN -1 ELSE CHOOSE i \in found : \A j \in found : i <= j

\* The slots recover_lost_packet visits: fec_idx and the
\* FEC_PACKET_INTERVAL - 1 slots before it.
RecoverIdx(fec_idx) ==
    [i \in 1 .. FEC_PACKET_INTERVAL |->
        (fec_idx - (i - 1) + REORDER_BUFFER_SIZE) % REORDER_BUFFER_SIZE]

\* recover_lost_packet(stream, fec_idx, lost_seq): the bytes handed to
\* process_rtp_payload.
RecoverLostPacket(buf, fec_idx, lost_seq) ==
    LET Member(idx) ==
            /\ FecSlot(buf, idx).valid /\ ~FecSlot(buf, idx).is_fec
            /\ FecSlot(buf, idx).seq # lost_seq
    IN  XorAll(FecSlot(buf, fec_idx).data,
               SlotData(buf, SelectSeq(RecoverIdx(fec_idx), Member)))

\* recover_lost_packet writes past the end of its malloc'ed buffer.
RecoverOverflows(buf, fec_idx, lost_seq) ==
    \E i \in DOMAIN RecoverIdx(fec_idx) :
        LET slot == FecSlot(buf, RecoverIdx(fec_idx)[i])
        IN  /\ slot.valid /\ ~slot.is_fec /\ slot.seq # lost_seq
            /\ Len(slot.data) > Len(FecSlot(buf, fec_idx).data)

\* What is left of the buffer after a write past its end: anything.
HeapCorrupted == <<-1>>

InitFec ==
    /\ fec_buffer = <<>>
    /\ sent = <<>>
    /\ fec_lost = 0
    /\ recovered = <<>>

(***************************************************************************)
(* The audio engine in front of the jitter buffer (audio_quality.c).       *)
(***************************************************************************)
NullHistory == "NULL"

\* is_sequence_out_of_order(history, sequence): whether the sequence number
\* is among the recent ones, and the ring afterwards (recent numbers, oldest
\* first; a new number pushes out the oldest of SEQUENCE_HISTORY_SIZE).
IsSequenceOutOfOrder(history, sequence) ==
    IF history = NullHistory THEN [dup |-> FALSE, history |-> history]
    ELSE IF \E i \in DOMAIN history : history[i] = sequence
    THEN [dup |-> TRUE, history |-> history]
    ELSE [dup |-> FALSE,
          history |-> IF Len(history) < SEQUENCE_HISTORY_SIZE
                      THEN Append(history, sequence)
                      ELSE Append(Tail(history), sequence)]

\* update_opus_bitrate without the clamp to [MIN_BITRATE, MAX_BITRATE].
UpdateOpusBitrateUnclamped(current_bitrate, loss_rate) ==
    IF loss_rate > 100 THEN current_bitrate - BITRATE_ADJUSTMENT_STEP
    ELSE IF loss_rate < 10 THEN current_bitrate + BITRATE_ADJUSTMENT_STEP
    ELSE current_bitrate

\* update_opus_bitrate(ctx): the encoder bitrate after one adjustment;
\* loss_rate in thousandths (> 0.1 is > 100, < 0.01 is < 10).
UpdateOpusBitrate(current_bitrate, loss_rate) ==
    LET adjusted == IF loss_rate > 100 THEN current_bitrate - BITRATE_ADJUSTMENT_STEP
                    ELSE IF loss_rate < 10 THEN current_bitrate + BITRATE_ADJUSTMENT_STEP
                    ELSE current_bitrate
    IN  IF adjusted < MIN_BITRATE THEN MIN_BITRATE
        ELSE IF adjusted > MAX_BITRATE THEN MAX_BITRATE
        ELSE adjusted

\* process_opus_encode reaches the encoder only with a whole 20 ms frame of
\* 16-bit samples at 48 kHz in the input.
EncoderReached(payload_size) == payload_size >= OPUS_FRAME_BYTES

\* audio_quality_init_with_config: calloc'ed context, encoder set to the
\* configured bitrate.
InitAudio ==
    /\ sequence_history = NullHistory
    /\ last_sequence = 0
    /\ bitrate = CONFIG_BITRATE
    /\ packet_loss_rate = 0
    /\ audio_calls = 0
    /\ audio_in = -1
    /\ audio_size = 0
    /\ audio_ret = 0
    /\ labelled = -1

(***************************************************************************)
(* Address strings and the stream table (nat64_utils.c, packet_utils.c,    *)
(* rtp_utils.c).  A string is the sequence of its characters.              *)
(***************************************************************************)
Nat64Doc == <<"2", "0", "0", "1", ":", "d", "b", "8", ":", "6", "4", ":", ":", "c", "0", "a", "8", ":", "1", "0", "1">>

Nat64WellKnown == <<"6", "4", ":", "f", "f", "9", "b", ":", ":", "c", "0", "a", "8", ":", "1", "0", "1">>

Nat64Other == <<"6", "4", ":", "f", "f", "9", "b", ":", ":", "a", "0", "0", ":", "1">>

LocalV6 == <<"2", "0", "0", "1", ":", "d", "b", "8", ":", ":", "1">>

EmbeddedV4 == <<"1", "9", "2", ".", "1", "6", "8", ".", "1", ".", "1">>

OtherV4 == <<"1", "0", ".", "0", ".", "0", ".", "1">>

\* nat64_prefixes of is_nat64_address
Nat64Prefixes ==
    {<<"6", "4", ":", "f", "f", "9", "b", ":", ":">>,
     <<"6", "4", ":", "f", "f", "9", "b", ":", "1", ":", ":">>,
     <<"2", "0", "0", "1", ":", "d", "b", "8", ":", "6", "4", ":", ":">>}

\* Character strings.
Text == Seq(STRING)

\* strncmp(addr, prefix, strlen(prefix)) == 0
HasPrefix(addr, prefix) ==
    Len(addr) >= Len(prefix) /\ SubSeq(addr, 1, Len(prefix)) = prefix

\* is_nat64_address(addr)
IsNat64Address == [addr \in Text |-> \E prefix \in Nat64Prefixes : HasPrefix(addr, prefix)]

\* strrchr(addr, ':') + 1: what follows the last colon; NoString = no colon.
NoString == <<"NULL">>

LastPart ==
    [addr \in Text |->
        LET colons == {i \in DOMAIN addr : addr[i] = ":"}
        IN  IF colons = {} THEN NoString
            ELSE SubSeq(addr, (CHOOSE i \in colons : \A j \in colons : j <= i) + 1, Len(addr))]

HexDigits == <<"0", "1", "2", "3", "4", "5", "6", "7", "8", "9",
               "a", "b", "c", "d", "e", "f">>

\* The value of every hexadecimal digit.
HexValue == [c \in {HexDigits[v] : v \in DOMAIN HexDigits} |->
                (CHOOSE v \in DOMAIN HexDigits : HexDigits[v] = c) - 1]

IsHexDigit(c) == c \in DOMAIN HexValue

\* One %02x conversion of sscanf at position pos of s: at most two
\* hexadecimal digits.
ScanHex2(s, pos) ==
    IF pos > Len(s) \/ ~IsHexDigit(s[pos]) THEN [ok |-> FALSE, value |-> 0, next |-> pos]
    ELSE IF pos + 1 <= Len(s) /\ IsHexDigit(s[pos + 1])
    THEN [ok |-> TRUE, value |-> 16 * HexValue[s[pos]] + HexValue[s[pos + 1]],
          next |-> pos + 2]
    ELSE [ok |-> TRUE, value |-> HexValue[s[pos]], next |-> pos + 1]

\* The format "%02x%02x:%02x%02x", directive by directive.
ScanFormat == <<"%02x", "%02x", ":", "%02x", "%02x">>

RECURSIVE Sscanf(_, _, _, _)
\* sscanf of s from position pos against the rest of the format: the values
\* converted until the input stops matching.
Sscanf(s, pos, format, values) ==
    IF format = <<>> THEN values
    ELSE IF Head(format) = "%02x"
    THEN IF ScanHex2(s, pos).ok
         THEN Sscanf(s, ScanHex2(s, pos).next, Tail(format),
                     Append(values, ScanHex2(s, pos).value))
         ELSE values
    ELSE IF pos <= Len(s) /\ s[pos] = Head(format)
    THEN Sscanf(s, pos + 1, Tail(format), values)
    ELSE values

\* sscanf(s, "%02x%02x:%02x%02x", &a, &b, &c, &d): the values converted; their
\* number is what sscanf returns.
ScanGroups == [s \in Text |-> Sscanf(s, 1, ScanFormat, <<>>)]

\* "%u" of every byte.
Decimal ==
    [n \in 0 .. 255 |->
        IF n >= 100
        THEN <<HexDigits[(n \div 100) + 1], HexDigits[((n \div 10) % 10) + 1], HexDigits[(n % 10) + 1]>>
        ELSE IF n >= 10 THEN <<HexDigits[(n \div 10) + 1], HexDigits[(n % 10) + 1]>>
        ELSE <<HexDigits[n + 1]>>]

\* snprintf(ipv4_buf, buf_size, "%u.%u.%u.%u", a, b, c, d): at most 15
\* characters, which fit the INET_ADDRSTRLEN bytes of the buffer.
DottedQuad(o) ==
    Decimal[o[1]] \o <<".">> \o Decimal[o[2]] \o <<".">> \o Decimal[o[3]] \o <<".">> \o Decimal[o[4]]

\* extract_ipv4_from_nat64(nat64_addr, ipv4_buf, sizeof ipv4_buf): whether it
\* succeeds and the text left in ipv4_buf.
ExtractIpv4FromNat64 ==
    [nat64_addr \in Text |->
        IF ~IsNat64Address[nat64_addr] \/ LastPart[nat64_addr] = NoString
              \/ Len(ScanGroups[LastPart[nat64_addr]]) # 4
        THEN [ok |-> FALSE, ipv4 |-> <<>>]
        ELSE [ok |-> TRUE, ipv4 |-> DottedQuad(ScanGroups[LastPart[nat64_addr]])]]

\* strncpy(addr_v4, addr, sizeof(addr_v4) - 1) into a zeroed buffer
CopiedV4(addr) ==
    SubSeq(addr, 1, IF Len(addr) < INET_ADDRSTRLEN THEN Len(addr) ELSE INET_ADDRSTRLEN - 1)

\* The IPv4 text addresses_match compares for an address: extracted from a
\* NAT64 address, copied from any other.
V4Text ==
    [addr \in Text |->
        IF IsNat64Address[addr] THEN ExtractIpv4FromNat64[addr]
        ELSE [ok |-> TRUE, ipv4 |-> CopiedV4(addr)]]

\* addresses_match without its direct string comparison.
AddressesMatchByExtraction(addr1, addr2) ==
    /\ IsNat64Address[addr1] \/ IsNat64Address[addr2]
    /\ V4Text[addr1].ok
    /\ V4Text[addr2].ok
    /\ V4Text[addr1].ipv4 = V4Text[addr2].ipv4

\* An addresses_match that compares the IPv4 forms only.
AddressesMatchV4Only(addr1, addr2) == AddressesMatchByExtraction(addr1, addr2)

\* addresses_match(addr1, addr2)
AddressesMatch(addr1, addr2) ==
    addr1 = addr2 \/ AddressesMatchByExtraction(addr1, addr2)

\* get_packet_direction(ip) for the source and destination of the header.
GetPacketDirection(src_ip, dst_ip) ==
    IF IsNat64Address[src_ip] /\ ~IsNat64Address[dst_ip] THEN "DIRECTION_INCOMING"
    ELSE IF ~IsNat64Address[src_ip] /\ IsNat64Address[dst_ip] THEN "DIRECTION_OUTGOING"
    ELSE "DIRECTION_UNKNOWN"

\* The search loop of find_or_create_stream: the first slot in use that has
\* the SSRC and the direction and whose addresses match, or 0.
MatchingSlot(table, src_ip, dst_ip, ssrc, direction) ==
    LET found == {i \in DOMAIN table :
                     /\ table[i].ssrc = ssrc
                     /\ table[i].direction = direction
                     /\ AddressesMatch(table[i].src_ip, src_ip)
                     /\ AddressesMatch(table[i].dst_ip, dst_ip)}
    IN  IF found = {} THEN 0 ELSE CHOOSE i \in found : \A j \in found : i <= j

\* find_or_create_stream reusing the first slot when none is free.
StreamAtEvicting(table, src_ip, dst_ip, ssrc, direction) ==
    [i \in 0 .. MAX_RTP_STREAMS |->
        IF i # 0 THEN [slot |-> i, table |-> table]
        ELSE IF Len(table) < MAX_RTP_STREAMS
        THEN [slot |-> Len(table) + 1,
              table |-> Append(table,
                           [ssrc |-> ssrc, direction |-> direction, src_ip |-> src_ip,
                            dst_ip |-> dst_ip, nat64_ip |-> <<>>])]
        ELSE [slot |-> 1,
              table |-> [table EXCEPT ![1] =
                           [ssrc |-> ssrc, direction |-> direction, src_ip |-> src_ip,
                            dst_ip |-> dst_ip, nat64_ip |-> <<>>]]]]

\* find_or_create_stream once the search loop has stopped at slot i (0 = no
\* stream matched): the slot of the stream (0 = NULL) and the table afterwards.
StreamAt(table, src_ip, dst_ip, ssrc, direction) ==
    [i \in 0 .. MAX_RTP_STREAMS |->
        IF i # 0
        THEN [slot |-> i,
              table |-> [table EXCEPT ![i].nat64_ip =
                            IF IsNat64Address[src_ip] /\ ~IsNat64Address[table[i].src_ip]
                            THEN src_ip
                            ELSE IF IsNat64Address[dst_ip] /\ ~IsNat64Address[table[i].dst_ip]
                            THEN dst_ip
                            ELSE table[i].nat64_ip]]
        ELSE IF Len(table) < MAX_RTP_STREAMS
        THEN [slot |-> Len(table) + 1,
              table |-> Append(table,
                           [ssrc |-> ssrc, direction |-> direction, src_ip |-> src_ip,
                            dst_ip |-> dst_ip,
                            nat64_ip |-> IF IsNat64Address[src_ip] THEN src_ip
                                         ELSE IF IsNat64Address[dst_ip] THEN dst_ip
                                         ELSE <<>>])]
        ELSE [slot |-> 0, table |-> table]]

\* find_or_create_stream(session, src_ip, ..., dst_ip, ..., ssrc, ...,
\* direction)
FindOrCreateStream(table, src_ip, dst_ip, ssrc, direction) ==
    StreamAt(table, src_ip, dst_ip, ssrc, direction)[
        MatchingSlot(table, src_ip, dst_ip, ssrc, direction)]

NoVerdict == [compared |-> FALSE, aa |-> FALSE, ab |-> FALSE, ba |-> FALSE,
              bc |-> FALSE, ac |-> FALSE]

InitTable ==
    /\ streams = <<>>
    /\ pkts = <<>>
    /\ probe = <<EmbeddedV4, EmbeddedV4, EmbeddedV4>>
    /\ verdict = NoVerdict

(***************************************************************************)
(* Interarrival jitter (rtp_utils.c).  stream->jitter is a double; it is   *)
(* kept exactly as the fraction num / JITTER_DIVISOR^exp.  The times of the *)
(* model are small enough for the 32-bit products of the code not to wrap.  *)
(***************************************************************************)
RECURSIVE Pow16(_)
Pow16(k) == IF k = 0 THEN 1 ELSE JITTER_DIVISOR * Pow16(k - 1)

Abs(d) == IF d < 0 THEN -d ELSE d

\* jitter + (d - jitter) / 16
JitterAfter(jitter, d) ==
    IF jitter.num = 0 /\ d = 0 THEN jitter
    ELSE [num |-> (JITTER_DIVISOR - 1) * jitter.num + d * Pow16(jitter.exp),
          exp |-> jitter.exp + 1]

\* j1 <= j2 for two jitter values
JitterLeq(j1, j2) ==
    IF j1.exp >= j2.exp THEN j1.num <= j2.num * Pow16(j1.exp - j2.exp)
    ELSE j1.num * Pow16(j2.exp - j1.exp) <= j2.num

FreshTiming ==
    [last_timestamp |-> 0, transit |-> 0, jitter |-> [num |-> 0, exp |-> 0],
     jitter_spikes |-> 0]

\* update_jitter_metrics(stream, timestamp, packet_time)
UpdateJitterMetrics(tm, timestamp, packet_time) ==
    LET transit == packet_time - ((timestamp * 1000) \div CLOCK_RATE)
        d == Abs(transit - tm.transit)
    IN  IF tm.last_timestamp = 0 THEN tm
        ELSE [tm EXCEPT !.transit = transit,
                        !.jitter = JitterAfter(tm.jitter, d),
                        !.jitter_spikes = IF d > CLOCK_RATE \div 100 THEN @ + 1 ELSE @]

\* The timing fields update_stream_stats writes for a stream in state s.
StreamStatsTiming(tm, s, timestamp, packet_time) ==
    LET transit == packet_time * CLOCK_RATE - timestamp
        d == Abs(transit - tm.transit)
    IN  IF s.packets_received = 0
        THEN [tm EXCEPT !.last_timestamp = timestamp, !.transit = 0,
                        !.jitter = [num |-> 0, exp |-> 0]]
        ELSE IF s.probation # 0 THEN tm
        ELSE IF tm.last_timestamp # timestamp
        THEN [tm EXCEPT !.transit = transit, !.jitter = JitterAfter(tm.jitter, d),
                        !.last_timestamp = timestamp]
        ELSE tm

InitTiming ==
    /\ timing = FreshTiming
    /\ wire_transit = 0
    /\ last_time = 0

(***************************************************************************)
(* SDP bodies (sip_utils.c).  A body is the sequence of its lines, each    *)
(* ended by CRLF; a line is what process_sdp can tell apart: a media line  *)
(* with its media, port and first payload type, an rtpmap attribute with   *)
(* its payload type, codec and rate, or any other line.                    *)
(***************************************************************************)
MediaLine(media, pt) == [tag |-> "m=", media |-> media, pt |-> pt, codec |-> ""]

RtpmapLine(pt, codec) == [tag |-> "a=rtpmap:", media |-> "", pt |-> pt, codec |-> codec]

OtherLine == [tag |-> "c=", media |-> "", pt |-> 0, codec |-> ""]

\* stream_info == NULL
NullInfo == [allocated |-> FALSE, direction |-> "", port |-> 0, payload_type |-> 0,
             codec |-> "", sample_rate |-> 0]

\* The descriptor a media line allocates: zeroed, then the direction, then
\* what sscanf("m=audio %hu RTP/AVP %d") converts.
NewInfo(line, direction) ==
    [allocated |-> TRUE, direction |-> direction,
     port |-> IF line.media = "audio" THEN 4000 ELSE 0,
     payload_type |-> IF line.media = "audio" THEN line.pt ELSE 0,
     codec |-> "", sample_rate |-> 0]

\* One turn of the line loop of process_sdp on the local stream_info.
SdpLine(info, line, direction) ==
    IF line.tag = "m=" THEN NewInfo(line, direction)
    ELSE IF line.tag = "a=rtpmap:" /\ info.allocated /\ line.pt = info.payload_type
    THEN [info EXCEPT !.codec = line.codec, !.sample_rate = CLOCK_RATE]
    ELSE info

RECURSIVE SdpLines(_, _, _)
SdpLines(info, lines, direction) ==
    IF lines = <<>> THEN info
    ELSE SdpLines(SdpLine(info, Head(lines), direction), Tail(lines), direction)

\* process_sdp(sdp, direction): the descriptors of the session afterwards.
ProcessSdp(stored, lines, direction) ==
    LET info == SdpLines(NullInfo, lines, direction)
    IN  IF info.allocated /\ Len(stored) < MAX_RTP_STREAMS
        THEN Append(stored, info)
        ELSE stored

NoLookup == [ssrc |-> 0, direction |-> "DIRECTION_UNKNOWN", src_ip |-> <<>>,
             dst_ip |-> <<>>, slot |-> 0]

\* The slot before any packet: session->streams is zeroed by
\* init_call_session.
NoClock == [active |-> FALSE, payload_type |-> 0, clock_rate |-> 0,
            last_timestamp |-> 0, last_packet_time |-> 0, corrected_timestamps |-> 0]

NoTsCheck == [n |-> 0, called |-> FALSE, last_timestamp |-> 0, elapsed |-> 0,
              ts_in |-> 0, ts_out |-> 0, corrections |-> 0, packet_time |-> 1]

\* audio_quality_init_with_config: the playout delay in microseconds; the
\* statistics are zeroed by calloc.
FreshPlayout == [adaptive_delay |-> DEFAULT_PLAYOUT_DELAY_MS * 1000, plc_used |-> FALSE,
                 calls |-> 0]

\* init_opus_codec with default_config: the encoder is set to the configured
\* bitrate; loss_rate is the packet loss rate the last encode read, in
\* thousandths.
FreshEncoder == [bitrate |-> CONFIG_BITRATE, loss_rate |-> 0, encodes |-> 0,
                 reached |-> FALSE]

InitQuality ==
    /\ rtp_clock = NoClock
    /\ ts_check = NoTsCheck
    /\ playout = FreshPlayout
    /\ encoder = FreshEncoder
    /\ solo = [stream |-> FreshStream, buffer |-> <<>>, head |-> 0]
    /\ other = [stream |-> FreshStream, fed |-> 0]

InitSession ==
    /\ insert_ret = 0
    /\ lookup = NoLookup
    /\ lookups = 0
    /\ stream_info = <<>>
    /\ media_lines = 0
    /\ frames = 0
    /\ fail_class = "none"
    /\ fail_run = 0
    /\ global_handle = "open"
    /\ global_dumper = "open"
    /\ flushed = FALSE
    /\ audio_ctxs = 0
    /\ shut = FALSE
    /\ InitQuality

InitExtra == InitFec /\ InitAudio /\ InitTable /\ InitTiming /\ InitSession

InitMedia == InitStats /\ InitJb /\ InitRtp /\ InitExtra

InitSip ==
    /\ dialog_state = DIALOG_INIT
    /\ last_bye_seen = 0
    /\ last_sip_seen = 0
    /\ sip_packets = 0
    /\ last_msg = NoMsg
    /\ bye_at = 0

\* The session as main() and start_capture leave it when pcap_loop starts.
InitCap ==
    /\ sip_state = "SIP_STATE_INIT"
    /\ start_time = now
    /\ last_rtp_seen = 0
    /\ total_packets = 0
    /\ last_status_check = 0
    /\ error_count = 0
    /\ capture_stopping = FALSE
    /\ breakloop = FALSE
    /\ clean_pos = 0

Init ==
    /\ now = 1
    /\ InitSip
    /\ InitCap
    /\ InitMedia
    /\ auto_mode = FALSE
    /\ capture_time = 0

SipStep ==
    /\ sip_packets < MaxSipPackets
    /\ \E msg \in SipMessages : ProcessSipPacket(msg)
    /\ UNCHANGED <<now, capVars, mediaVars>>

TickStep ==
    /\ Tick
    /\ UNCHANGED <<sipVars, capVars, mediaVars>>

Next ==
    \/ SipStep
    \/ TickStep

Spec == Init /\ [][Next]_vars

(***************************************************************************)
(* The capture session (packet_capture.c).  A captured frame is            *)
(*   class  "invalid" (no header or no data), "nonudp" (get_packet_headers *)
(*          fails), "badlen" (payload length <= 0) or "udp"                *)
(*   sip    a UDP frame from or to port 5060, carrying msg                 *)
(*   rtp    what the RTP path does with a UDP frame: "none" (the ports are *)
(*          outside the RTP range or is_rtp_packet rejects the payload),   *)
(*          "dropped" (process_rtp_packet returns early) or "counted"      *)
(*          (process_rtp_packet runs to its end).  The per-stream effects  *)
(*          of process_rtp_packet are modelled under SpecRtp.              *)
(***************************************************************************)
Frame(c, isSip, msg, r) == [class |-> c, sip |-> isSip, msg |-> msg, rtp |-> r]

\* is_rtp_packet reads the first two bytes of the payload as an RTP header, and
\* port 5060 lies inside IS_RTP_PORT's range 1024..65535, so the text of a SIP
\* message can pass: "INVITE" and "BYE" read as version <= 2 with a payload
\* type process_rtp_packet rejects (39, 44), "ACK" as payload type 33, which
\* it accepts; "SIP/2.0", "CANCEL" and "OPTIONS" read as version 3.
SipRtpOutcomes(msg) ==
    IF msg.kind = "request" /\ msg.method \in {"INVITE", "BYE"} THEN {"dropped"}
    ELSE IF msg.kind = "request" /\ msg.method = "ACK" THEN {"dropped", "counted"}
    ELSE {"none"}

CaptureMessages ==
    {Request(m) : m \in {"INVITE", "ACK", "BYE"}}
    \cup {Response(c, "INVITE", {}) : c \in {100, 180, 200}}
    \cup {Response(200, "BYE", {})}

\* Frames that reach the UDP dispatch of process_packet.
CallFrames ==
    {Frame("udp", FALSE, NoMsg, "counted")}
    \cup {Frame("udp", TRUE, m[1], m[2]) :
             m \in {x \in CaptureMessages \X {"none", "dropped", "counted"} :
                       x[2] \in SipRtpOutcomes(x[1])}}

\* Frames process_packet leaves before the UDP dispatch: "nonudp" silently,
\* the others counted as errors.
NoiseFrames == {Frame(c, FALSE, NoMsg, "none") : c \in {"nonudp", "invalid", "badlen"}}

\* check_capture_status: runs its checks at most once per STATUS_CHECK_INTERVAL.
StatusCheckDue == now - last_status_check >= STATUS_CHECK_INTERVAL

\* check_capture_status calls pcap_breakloop.
StatusCheckBreaks ==
    /\ StatusCheckDue
    /\ total_packets > 0
    /\ \/ /\ last_sip_seen > 0
          /\ now - last_sip_seen >= AUTO_MODE_TIMEOUT
          /\ now - last_rtp_seen >= RTP_TIMEOUT
       \/ /\ dialog_state = DIALOG_TRYING
          /\ now - last_sip_seen >= SETUP_TIMEOUT

\* The predicates of is_capture_complete(), in the order it tests them.
TimeLimitReached(t) == capture_time > 0 /\ t - start_time >= capture_time

RtpInactive(t, lrs) == lrs > 0 /\ t - lrs >= RTP_TIMEOUT

ByeGraceOver(t, ds, lbs) ==
    ds = DIALOG_TERMINATED /\ lbs > 0 /\ RTP_GRACE_PERIOD - (t - lbs) <= 0

NoCallStarted(t, ds) == ds = DIALOG_INIT /\ t - start_time >= AUTO_MODE_TIMEOUT

\* is_capture_complete() at time t for the given session fields.
IsCaptureComplete(t, ds, lbs, lss, lrs) ==
    \/ TimeLimitReached(t)
    \/ RtpInactive(t, lrs)
    \/ ByeGraceOver(t, ds, lbs)
    \/ NoCallStarted(t, ds)
    \/ /\ auto_mode
       /\ \/ /\ lss > 0
             /\ sip_state # "SIP_STATE_ESTABLISHED"
             /\ t - lss >= AUTO_MODE_TIMEOUT
             /\ t - lrs >= AUTO_MODE_TIMEOUT
          \/ /\ sip_state = "SIP_STATE_TERMINATED"
             /\ t - lss >= SETUP_TIMEOUT

\* The clean call: INVITE, 100, 180, 200, ACK, an RTP stream, BYE, 200.
CleanStep(k, f) ==
    /\ f.class = "udp"
    /\ \/ k = 1 /\ f.sip /\ IsRequest(f.msg, "INVITE")
       \/ k = 2 /\ f.sip /\ f.msg = Response(100, "INVITE", {})
       \/ k = 3 /\ f.sip /\ f.msg = Response(180, "INVITE", {})
       \/ k = 4 /\ f.sip /\ f.msg = Response(200, "INVITE", {})
       \/ k = 5 /\ f.sip /\ IsRequest(f.msg, "ACK")
       \/ k = 6 /\ ~f.sip /\ f.rtp = "counted"
       \/ k = 7 /\ f.sip /\ IsRequest(f.msg, "BYE")
       \/ k = 8 /\ f.sip /\ f.msg = Response(200, "BYE", {})

CleanPosAfter(pos, f) ==
    IF pos >= 0 /\ pos < 8 /\ CleanStep(pos + 1, f) THEN pos + 1
    ELSE IF pos = 6 /\ CleanStep(6, f) THEN pos
    ELSE -1

\* process_packet(user, header, packet): the pcap_loop callback.
ProcessPacket(f) ==
    /\ last_status_check' = IF StatusCheckDue THEN now ELSE last_status_check
    /\ clean_pos' = CleanPosAfter(clean_pos, f)
    /\ UNCHANGED <<now, sip_state, start_time, auto_mode, capture_time, capture_stopping>>
    /\ IF f.class = "invalid"
       THEN /\ error_count' = error_count + 1
            /\ breakloop' = (StatusCheckBreaks \/ error_count + 1 >= MAX_ERRORS)
            /\ UNCHANGED <<sipVars, last_rtp_seen, total_packets>>
       ELSE IF f.class = "nonudp"
       THEN /\ total_packets' = total_packets + 1
            /\ breakloop' = StatusCheckBreaks
            /\ UNCHANGED <<sipVars, last_rtp_seen, error_count>>
       ELSE IF f.class = "badlen"
       THEN /\ total_packets' = total_packets + 1
            /\ error_count' = error_count + 1
            /\ breakloop' = (StatusCheckBreaks \/ error_count + 1 >= MAX_ERRORS)
            /\ UNCHANGED <<sipVars, last_rtp_seen>>
       ELSE /\ total_packets' = total_packets + 1 + (IF f.rtp = "counted" THEN 1 ELSE 0)
            /\ IF f.sip THEN ProcessSipPacket(f.msg) ELSE UNCHANGED sipVars
            /\ last_rtp_seen' = IF f.rtp # "none" THEN now ELSE last_rtp_seen
            /\ error_count' = IF f.rtp # "none" THEN 0 ELSE error_count
            /\ breakloop' =
                  \/ StatusCheckBreaks
                  \/ /\ auto_mode
                     /\ IsCaptureComplete(now, dialog_state', last_bye_seen',
                                          last_sip_seen', last_rtp_seen')

\* pcap_loop delivers the next frame to the callback, until pcap_breakloop.
PacketStep ==
    /\ ~breakloop
    /\ total_packets < MaxPackets
    /\ \E f \in CallFrames : ProcessPacket(f)
    /\ UNCHANGED mediaVars

\* timer_handler: SIGALRM, armed by alarm(capture_time), ends the loop.
AlarmStep ==
    /\ ~breakloop
    /\ capture_time > 0
    /\ now - start_time >= capture_time
    /\ breakloop' = TRUE
    /\ UNCHANGED mediaVars
    /\ UNCHANGED <<now, sipVars, sip_state, start_time, last_rtp_seen, total_packets,
                   last_status_check, error_count, auto_mode, capture_time,
                   capture_stopping, clean_pos>>

\* signal_handler: SIGINT, SIGTERM, SIGHUP or SIGQUIT from the operator.
SignalStep ==
    /\ ~breakloop
    /\ capture_stopping' = TRUE
    /\ breakloop' = TRUE
    /\ UNCHANGED mediaVars
    /\ UNCHANGED <<now, sipVars, sip_state, start_time, last_rtp_seen, total_packets,
                   last_status_check, error_count, auto_mode, capture_time, clean_pos>>

InitCapture ==
    /\ now = 1
    /\ InitSip
    /\ InitCap
    /\ InitMedia
    /\ auto_mode \in BOOLEAN
    /\ capture_time \in {0, CaptureBudget}

NextCapture ==
    \/ PacketStep
    \/ TickStep
    \/ AlarmStep
    \/ SignalStep

SpecCapture == InitCapture /\ [][NextCapture]_vars

(***************************************************************************)
(* SpecErrors: a packet source that also hands the callback frames it      *)
(* cannot use, between the frames of a call, within one second.            *)
(***************************************************************************)
ErrorFrames ==
    NoiseFrames
    \cup {Frame("udp", FALSE, NoMsg, "counted"), Frame("udp", FALSE, NoMsg, "none"),
          Frame("udp", TRUE, Response(100, "INVITE", {}), "none")}

IsFailure(f) == f.class \in {"invalid", "badlen"}

ErrorFrameStep ==
    /\ ~breakloop
    /\ frames < MaxErrorFrames
    /\ frames' = frames + 1
    /\ \E f \in ErrorFrames :
          /\ ProcessPacket(f)
          /\ fail_class' = IF IsFailure(f) THEN f.class
                           ELSE IF f.class = "nonudp" THEN fail_class
                           ELSE "none"
          /\ fail_run' = IF IsFailure(f)
                         THEN (IF f.class = fail_class THEN fail_run + 1 ELSE 1)
                         ELSE IF f.class = "nonudp" THEN fail_run
                         ELSE 0
    /\ UNCHANGED <<statVars, jbVars, rtpVars, extraVars, overflowVars, lookupVars, sdpVars, shutVars, qualityVars>>

InitErrors ==
    /\ now = 1
    /\ InitSip
    /\ InitCap
    /\ InitMedia
    /\ auto_mode = FALSE
    /\ capture_time = 0

NextErrors == ErrorFrameStep

SpecErrors == InitErrors /\ [][NextErrors]_vars

(***************************************************************************)
(* SpecAuto: a call attempt watched over minutes.  The frames of the       *)
(* interface keep arriving (other UDP traffic, early media) while the      *)
(* signalling is silent for a minute or several minutes.                   *)
(***************************************************************************)
AutoFrames ==
    {Frame("udp", TRUE, Request("INVITE"), "dropped"),
     Frame("udp", TRUE, Response(486, "INVITE", {}), "none"),
     Frame("udp", TRUE, Request("BYE"), "dropped"),
     Frame("udp", FALSE, NoMsg, "counted"),
     Frame("udp", FALSE, NoMsg, "none")}

WaitSeconds == {60, 240}

AutoFrameStep ==
    /\ ~breakloop
    /\ frames < MaxAutoFrames
    /\ frames' = frames + 1
    /\ \E f \in AutoFrames : ProcessPacket(f)
    /\ UNCHANGED <<fail_class, fail_run>>
    /\ UNCHANGED <<statVars, jbVars, rtpVars, extraVars, overflowVars, lookupVars, sdpVars, shutVars, qualityVars>>

WaitStep ==
    /\ ~breakloop
    /\ \E d \in WaitSeconds :
          /\ now + d <= MaxAutoTime
          /\ now' = now + d
    /\ UNCHANGED <<sipVars, capVars, mediaVars>>

InitAuto ==
    /\ now = 1
    /\ InitSip
    /\ InitCap
    /\ InitMedia
    /\ auto_mode \in BOOLEAN
    /\ capture_time = 0

NextAuto == AutoFrameStep \/ WaitStep

SpecAuto == InitAuto /\ [][NextAuto]_vars

\* Time passes and a due alarm is delivered; frames and operator signals come
\* from the environment and carry no fairness.
FairCapture == SpecCapture /\ WF_vars(TickStep) /\ WF_vars(AlarmStep)

(***************************************************************************)
(* SpecStats: sequence numbers fed to update_stream_stats of a fresh       *)
(* stream.  The first number is drawn from StartSeqs, each later one is    *)
(* its predecessor plus a step of SeqSteps modulo 2^16: a repeat, the next *)
(* number, one or two numbers skipped, one number back, a jump of          *)
(* MAX_DROPOUT.                                                            *)
(***************************************************************************)
StartSeqs == {100, 65530, 65534}

StepBack == RTP_SEQ_MOD - 1

SeqSteps == {0, 1, 2, 3, StepBack, MAX_DROPOUT}

\* The step is ahead of its predecessor: not a repeat, not a step back.
IsAhead(d) == d >= 1 /\ d < MAX_DROPOUT

Feed(seq, d) ==
    /\ stream' = UpdateStreamStats(stream, seq)
    /\ first_in' = IF first_in = -1 THEN seq ELSE first_in
    /\ last_in' = seq
    /\ inorder' = (inorder /\ (last_in = -1 \/ d = 1))
    /\ increasing' = (increasing /\ (last_in = -1 \/ IsAhead(d)))
    /\ missing' = IF last_in # -1 /\ IsAhead(d) THEN missing + (d - 1) ELSE missing
    /\ run' = IF last_in # -1 /\ d = 1 THEN run + 1 ELSE 1
    /\ wraps' = IF last_in # -1 /\ IsAhead(d) /\ seq < last_in THEN wraps + 1 ELSE wraps

StatsStep ==
    /\ stream.packets_received < MaxSeqPackets
    /\ IF last_in = -1
       THEN \E seq \in StartSeqs : Feed(seq, 1)
       ELSE \E d \in SeqSteps : Feed(U16(last_in + d), d)
    /\ UNCHANGED <<sessionVars, now, sipVars, capVars, jbVars, rtpVars, extraVars>>

NextStats == StatsStep

SpecStats == Init /\ [][NextStats]_vars

(***************************************************************************)
(* SpecJb: packets inserted into the jitter buffer of a fresh context and  *)
(* taken out again, at arrival and playout times of the environment.       *)
(***************************************************************************)
ArrivalTimes == {5000, 10000, 20000}

Timestamps == {0, 4800}

PlayTimes == {40000, 50000, 70000, 150000}

InsertStep ==
    /\ inserted < MaxInserts
    /\ ~ctx.fault
    /\ \E a \in ArrivalTimes, ts \in Timestamps :
          ctx' = InsertPacketWithTiming(ctx,
                    [expected_play_time |-> 0, timestamp |-> ts, arrival_time |-> a])
    /\ inserted' = inserted + 1
    /\ UNCHANGED <<asked, last_out, out_sorted>>
    /\ UNCHANGED <<sessionVars, now, sipVars, capVars, statVars, rtpVars, extraVars>>

GetNextStep ==
    /\ asked < MaxGets
    /\ ~ctx.fault
    /\ asked' = asked + 1
    /\ \E t \in PlayTimes :
          /\ ctx' \in GetNextPacket(ctx, t)
          /\ IF NextPacketOutcome(ctx, t) = "played"
             THEN /\ last_out' = Slot(ctx, ctx.read_ptr).expected_play_time
                  /\ out_sorted' = (out_sorted /\ last_out' >= last_out)
             ELSE UNCHANGED <<last_out, out_sorted>>
    /\ UNCHANGED inserted
    /\ UNCHANGED <<sessionVars, now, sipVars, capVars, statVars, rtpVars, extraVars>>

NextJb == InsertStep \/ GetNextStep

SpecJb == Init /\ [][NextJb]_vars

(***************************************************************************)
(* SpecOverflow: a stream paced at 20 ms fills the jitter buffer while      *)
(* nothing is played; near the capacity packets also arrive early and the  *)
(* player starts asking.                                                   *)
(***************************************************************************)
NearlyFull == ctx.buffer_size >= MAX_JITTER_BUFFER_PACKETS - FullMargin

FillStep ==
    /\ inserted < MAX_JITTER_BUFFER_PACKETS + MaxRejected
    /\ ~ctx.fault
    /\ inserted' = inserted + 1
    /\ \E arrival_time \in {20000 * inserted} \cup (IF NearlyFull THEN {5000} ELSE {}) :
          /\ ctx' = InsertPacketWithTiming(ctx,
                       [expected_play_time |-> 0, timestamp |-> 960 * inserted,
                        arrival_time |-> arrival_time])
          /\ insert_ret' = InsertReturn(ctx)
    /\ UNCHANGED <<asked, last_out, out_sorted, lookupVars, sdpVars, errVars, shutVars, qualityVars>>
    /\ UNCHANGED <<now, sipVars, capVars, statVars, rtpVars, extraVars>>

DrainStep == NearlyFull /\ GetNextStep

NextOverflow == FillStep \/ DrainStep

SpecOverflow == Init /\ [][NextOverflow]_vars

(***************************************************************************)
(* SpecRtp: the packets of one stream handed to process_rtp_packet in the  *)
(* order of a delivery script.  Each packet passed the payload-type and    *)
(* size checks.  The capture header's time stamp is Lag seconds behind     *)
(* time(NULL): none for a frame delivered at once, MAX_REORDER_WAIT_MS for *)
(* one that sat in the capture buffer.                                     *)
(***************************************************************************)
ReorderScript == <<100, 101, 103, 102, 104, 105, 106, 107, 108, 109, 110>>

FromOneScript == <<1, 2, 3, 4, 5>>

StaleScript == <<200, 201, 202, 203, 100, 204>>

\* A PCMU stream with one dropped packet (102 never arrives).
DropScript == <<100, 101, 103, 104>>

Scripts == {ReorderScript, FromOneScript, StaleScript, DropScript}

Lags == {0, MAX_REORDER_WAIT_MS}

\* process_rtp_packet for the packet seq captured at time arrival.
ProcessRtpPacket(seq, arrival) ==
    LET h == HandleOutOfSequence(stream, reorder_buffer, reorder_head, seq, arrival, now)
    IN  /\ reorder_buffer' = h.buffer
        /\ reorder_head' = h.head
        /\ IF h.process
           THEN /\ stream' = UpdateStreamStats(HandleSilenceInsertion(stream, seq), seq)
                /\ last_in' = seq
                /\ last_rtp_seen' = arrival
                /\ total_packets' = total_packets + 1
           ELSE UNCHANGED <<stream, last_in, last_rtp_seen, total_packets>>

RtpStep ==
    /\ delivered < Len(script)
    /\ delivered' = delivered + 1
    /\ \E lag \in Lags : ProcessRtpPacket(script[delivered + 1], now - lag)
    /\ UNCHANGED <<sessionVars, script, now, sipVars, jbVars, extraVars>>
    /\ UNCHANGED <<first_in, inorder, increasing, missing, run, wraps>>
    /\ UNCHANGED <<sip_state, start_time, last_status_check, error_count, auto_mode,
                   capture_time, capture_stopping, breakloop, clean_pos>>

InitRtpRun ==
    /\ now = MAX_REORDER_WAIT_MS + 1
    /\ InitSip
    /\ InitCap
    /\ InitStats
    /\ InitJb
    /\ InitExtra
    /\ reorder_buffer = <<>>
    /\ reorder_head = 0
    /\ script \in Scripts
    /\ delivered = 0
    /\ auto_mode = FALSE
    /\ capture_time = 0

NextRtp == RtpStep

SpecRtp == InitRtpRun /\ [][NextRtp]_vars

(***************************************************************************)
(* Claims about the dialog state machine (checked under Spec).             *)
(***************************************************************************)
\* A step of the model that is a call of process_sip_packet.
IsSipCall == sip_packets' = sip_packets + 1

\* C3: TERMINATED is terminal: once the dialog is TERMINATED no later SIP
\* message (a new INVITE and a 200 for INVITE included) changes the dialog state.
C3_TerminatedIsTerminal ==
    [][dialog_state = DIALOG_TERMINATED => dialog_state' = DIALOG_TERMINATED]_vars

\* The rows of the transition table: from state s the message msg leads to t.
TableRow(s, msg, t) ==
    \/ s = DIALOG_INIT /\ IsRequest(msg, "INVITE") /\ t = DIALOG_TRYING
    \/ s = DIALOG_TRYING /\ Is200For(msg, "INVITE") /\ t = DIALOG_ESTABLISHED
    \/ IsRequest(msg, "BYE") /\ t = DIALOG_TERMINATED
    \/ Is200For(msg, "BYE") /\ t = DIALOG_TERMINATED
    \/ IsRequest(msg, "CANCEL") /\ t = DIALOG_TERMINATED
    \/ s = DIALOG_TRYING /\ msg.kind = "response" /\ msg.code \in {486, 487, 603}
       /\ t = DIALOG_TERMINATED

\* C4: every change of the dialog state made by process_sip_packet is a row of
\* the transition table, From state included; a message that matches no row
\* leaves the state unchanged.
C4_TransitionsFollowTable ==
    [][(IsSipCall /\ dialog_state' # dialog_state)
          => TableRow(dialog_state, last_msg', dialog_state')]_vars

\* C10: last_bye_seen is set by the first BYE request or 200-for-BYE response,
\* whichever comes first, and no later SIP message changes it.
C10_LastByeSetOnce ==
    [][IsSipCall =>
          /\ (last_bye_seen # 0 => last_bye_seen' = last_bye_seen)
          /\ (last_bye_seen = 0 /\ IsByeOrOkForBye(last_msg') => last_bye_seen' = now)
          /\ (last_bye_seen = 0 /\ ~IsByeOrOkForBye(last_msg') => last_bye_seen' = 0)]_vars

\* C11: from any dialog state a 200 response whose CSeq header names BYE
\* moves the dialog to TERMINATED and sets last_bye_seen if it was unset,
\* whatever the message carries after the CSeq header.
C11_OkForByeTerminates ==
    [][(IsSipCall /\ Is200For(last_msg', "BYE")) =>
          /\ dialog_state' = DIALOG_TERMINATED
          /\ last_bye_seen' = IF last_bye_seen = 0 THEN now ELSE last_bye_seen]_vars

(***************************************************************************)
(* Claims about the capture session (checked under FairCapture).           *)
(***************************************************************************)
CleanCallDone == clean_pos = 8

GraceElapsed == last_bye_seen > 0 /\ now - last_bye_seen >= RTP_GRACE_PERIOD

\* C5: after the clean call INVITE, 100, 180, 200, ACK, RTP, BYE, 200 the
\* dialog is TERMINATED, and once RTP_GRACE_PERIOD seconds have passed since
\* the BYE an auto-mode capture stops, whether or not another packet arrives.
C5_CleanCallStops ==
    /\ [](CleanCallDone => dialog_state = DIALOG_TERMINATED)
    /\ ((auto_mode /\ CleanCallDone /\ GraceElapsed) ~> breakloop)

\* The step is a call of process_packet that stops the capture through the
\* BYE predicate: no earlier test of the call has asked for the stop.
StoppedByBye ==
    /\ ~breakloop /\ breakloop'
    /\ total_packets' # total_packets
    /\ auto_mode
    /\ ~StatusCheckBreaks
    /\ ~TimeLimitReached(now)
    /\ ~RtpInactive(now, last_rtp_seen')
    /\ ByeGraceOver(now, dialog_state', last_bye_seen')

\* C12: when the capture is stopped through the BYE predicate the dialog is
\* TERMINATED and at least RTP_GRACE_PERIOD seconds have passed since the BYE
\* or 200-for-BYE that ended that dialog.
C12_GracePeriodSafety ==
    [][StoppedByBye =>
          /\ dialog_state' = DIALOG_TERMINATED
          /\ bye_at' > 0
          /\ now - bye_at' >= RTP_GRACE_PERIOD]_vars

\* After the step one of the termination predicates that are not auto-mode
\* only holds.  The time budget is left out: the alarm enforces it as well.
PredicateHoldsAfter ==
    \/ RtpInactive(now', last_rtp_seen')
    \/ ByeGraceOver(now', dialog_state', last_bye_seen')
    \/ NoCallStarted(now', dialog_state')

\* The step is a call of process_packet on a frame it dispatches.
PacketBoundary == ~breakloop /\ total_packets' # total_packets

\* C13: with auto mode on or off, whenever a termination predicate that is
\* not auto-mode only holds at a packet boundary, the capture is asked to stop.
C13_PredicatesAlwaysEvaluated ==
    [][(PacketBoundary /\ PredicateHoldsAfter) => breakloop']_vars

(***************************************************************************)
(* The FEC functions driven directly: the sender's packets 1, 2, ... are   *)
(* stored with their payload or lost on the way, then a gap is reported.   *)
(***************************************************************************)
PayloadSet == {<<1, 2>>, <<4, 8>>, <<16>>}

FecGaps == {1, 2}

\* The sequence numbers held in valid slots.
Held == {fec_buffer[i].seq : i \in {k \in DOMAIN fec_buffer : fec_buffer[k].valid}}

FecStoreStep ==
    /\ fec_lost = 0
    /\ Len(sent) < MaxFecPackets
    /\ \E data \in PayloadSet :
          /\ sent' = Append(sent, data)
          /\ fec_buffer' = StorePacketInfo(fec_buffer, Len(sent) + 1, data)
    /\ UNCHANGED <<fec_lost, recovered>>
    /\ UNCHANGED <<sessionVars, now, sipVars, capVars, statVars, jbVars, rtpVars, audioVars, tableVars,
                   timingVars>>

FecLoseStep ==
    /\ fec_lost = 0
    /\ Len(sent) < MaxFecPackets
    /\ \E data \in PayloadSet : sent' = Append(sent, data)
    /\ UNCHANGED <<fec_buffer, fec_lost, recovered>>
    /\ UNCHANGED <<sessionVars, now, sipVars, capVars, statVars, jbVars, rtpVars, audioVars, tableVars,
                   timingVars>>

\* try_fec_recovery(stream, start_seq, gap) for a missing start_seq.
FecRecoverStep ==
    /\ fec_lost = 0
    /\ \E start_seq \in (1 .. Len(sent)) \ Held, gap \in FecGaps :
          LET fec_idx == TryFecRecovery(fec_buffer, start_seq, gap)
          IN  /\ fec_lost' = start_seq
              /\ IF fec_idx = -1 THEN recovered' = <<>>
                 ELSE \/ recovered' = RecoverLostPacket(fec_buffer, fec_idx, start_seq)
                      \/ /\ RecoverOverflows(fec_buffer, fec_idx, start_seq)
                         /\ recovered' = HeapCorrupted
    /\ UNCHANGED <<fec_buffer, sent>>
    /\ UNCHANGED <<sessionVars, now, sipVars, capVars, statVars, jbVars, rtpVars, audioVars, tableVars,
                   timingVars>>

NextFec ==
    \/ FecStoreStep
    \/ FecLoseStep
    \/ FecRecoverStep

SpecFec == Init /\ [][NextFec]_vars

(***************************************************************************)
(* The audio engine driven directly: packets are handed to                 *)
(* audio_quality_process_packet and asked back for playout.                *)
(***************************************************************************)
AudioSeqs == {7, 8}

PayloadSizes == {160, OPUS_FRAME_BYTES}

\* audio_quality_process_packet(ctx, payload, payload_size, sequence,
\* timestamp, arrival_time); encoded and fec tell whether the two opus_encode
\* calls of the library produce a packet.
AudioQualityProcessPacket(payload_size, sequence, timestamp, arrival_time, encoded, fec) ==
    LET check == IsSequenceOutOfOrder(sequence_history, sequence)
        relabelled == IF check.dup THEN U16(last_sequence + 1) ELSE sequence
        counted == IF check.dup THEN [ctx EXCEPT !.packets_lost = ctx.packets_lost + 1]
                   ELSE ctx
        packet == [expected_play_time |-> 0, timestamp |-> timestamp,
                   arrival_time |-> arrival_time]
        one == InsertPacketWithTiming(counted, packet)
        full == counted.buffer_size >= MAX_JITTER_BUFFER_PACKETS
    IN  /\ sequence_history' = check.history
        /\ last_sequence' = relabelled
        /\ IF ~EncoderReached(payload_size)
           THEN /\ ctx' = counted
                /\ audio_ret' = -1
                /\ labelled' = -1
                /\ UNCHANGED bitrate
           ELSE /\ bitrate' = UpdateOpusBitrate(bitrate, packet_loss_rate)
                /\ IF ~encoded
                   THEN /\ ctx' = counted
                        /\ audio_ret' = -1
                        /\ labelled' = -1
                   ELSE /\ ctx' = IF fec /\ ~full THEN InsertPacketWithTiming(one, packet)
                                  ELSE one
                        /\ audio_ret' = IF full THEN -1 ELSE 0
                        /\ labelled' = IF full THEN -1 ELSE relabelled
        /\ UNCHANGED packet_loss_rate

AudioProcessStep ==
    /\ audio_calls < MaxAudioPackets
    /\ ~ctx.fault
    /\ audio_calls' = audio_calls + 1
    /\ \E sequence \in AudioSeqs, payload_size \in PayloadSizes,
          arrival_time \in ArrivalTimes, encoded \in BOOLEAN, fec \in BOOLEAN :
          /\ audio_in' = sequence
          /\ audio_size' = payload_size
          /\ AudioQualityProcessPacket(payload_size, sequence, 0, arrival_time, encoded, fec)
    /\ UNCHANGED <<inserted, asked, last_out, out_sorted>>
    /\ UNCHANGED <<sessionVars, now, sipVars, capVars, statVars, rtpVars, fecVars, tableVars, timingVars>>

NextAudio == AudioProcessStep \/ GetNextStep

SpecAudio == Init /\ [][NextAudio]_vars

(***************************************************************************)
(* The stream table fed with the RTP packets of IPv6 and IPv4 frames.      *)
(***************************************************************************)
V6Addresses == {Nat64Doc, LocalV6}

V4Addresses == {EmbeddedV4, OtherV4}

\* Source and destination of a frame belong to the same address family.
AddressPairs == (V6Addresses \X V6Addresses) \cup (V4Addresses \X V4Addresses)

Ssrcs == {1, 2}

\* The stream lookup of process_rtp_packet for one RTP packet, with the
\* direction process_packet computed for its frame.
StreamPacketStep ==
    /\ Len(pkts) < MaxStreamPackets
    /\ \E pair \in AddressPairs, ssrc \in Ssrcs :
          \E r \in {FindOrCreateStream(streams, pair[1], pair[2], ssrc,
                                       GetPacketDirection(pair[1], pair[2]))} :
              /\ streams' = r.table
              /\ pkts' = Append(pkts, [src_ip |-> pair[1], ssrc |-> ssrc, slot |-> r.slot])
    /\ UNCHANGED <<probe, verdict>>
    /\ UNCHANGED <<sessionVars, now, sipVars, capVars, statVars, jbVars, rtpVars, fecVars, audioVars, timingVars>>

NextStreams == StreamPacketStep

SpecStreams == Init /\ [][NextStreams]_vars

(***************************************************************************)
(* SpecSdp: SIP messages that carry an SDP body.                           *)
(***************************************************************************)
SdpLineSet ==
    {MediaLine("audio", 0), MediaLine("audio", 8), RtpmapLine(0, "PCMU"), OtherLine}

SdpBodies == UNION {[1 .. n -> SdpLineSet] : n \in 1 .. MaxSdpLines}

SdpCarriers == {Request("INVITE"), Response(200, "INVITE", {})}

AudioLines(lines) ==
    Cardinality({i \in DOMAIN lines : lines[i].tag = "m=" /\ lines[i].media = "audio"})

SdpStep ==
    /\ sip_packets < MaxSdpMessages
    /\ \E msg \in SdpCarriers, lines \in SdpBodies,
          direction \in {"DIRECTION_INCOMING", "DIRECTION_OUTGOING"} :
          /\ ProcessSipPacket(msg)
          /\ stream_info' = ProcessSdp(stream_info, lines, direction)
          /\ media_lines' = media_lines + AudioLines(lines)
    /\ UNCHANGED <<now, capVars, statVars, jbVars, rtpVars, extraVars, overflowVars, lookupVars, errVars, shutVars, qualityVars>>

NextSdp == SdpStep

SpecSdp == Init /\ [][NextSdp]_vars

(***************************************************************************)
(* SpecTable: one call with more RTP sources than the table has slots.     *)
(* SSRCs are numbered in the order of their first packet; the sources send *)
(* over the NAT64 path, and once the table is nearly full also over IPv4.  *)
(***************************************************************************)
TableNearlyFull == Len(streams) >= MAX_RTP_STREAMS - 1

TablePairs ==
    {<<Nat64Doc, LocalV6>>} \cup (IF TableNearlyFull THEN {<<EmbeddedV4, OtherV4>>} ELSE {})

TableSsrcs == {1, Len(streams), Len(streams) + 1} \ {0}

TableLookupStep ==
    /\ lookups < MaxLookups
    /\ lookups' = lookups + 1
    /\ \E pair \in TablePairs, ssrc \in TableSsrcs :
          \E r \in {FindOrCreateStream(streams, pair[1], pair[2], ssrc,
                                       GetPacketDirection(pair[1], pair[2]))} :
              /\ streams' = r.table
              /\ lookup' = [ssrc |-> ssrc,
                            direction |-> GetPacketDirection(pair[1], pair[2]),
                            src_ip |-> pair[1], dst_ip |-> pair[2], slot |-> r.slot]
    /\ UNCHANGED <<pkts, probe, verdict, overflowVars, sdpVars, errVars, shutVars, qualityVars>>
    /\ UNCHANGED <<now, sipVars, capVars, statVars, jbVars, rtpVars, fecVars, audioVars, timingVars>>

NextTable == TableLookupStep

SpecTable == Init /\ [][NextTable]_vars

(***************************************************************************)
(* SpecShutdown: RTP packets create streams until the operator stops the   *)
(* capture; then pcap_loop returns, start_capture cleans up and main       *)
(* cleans the session.                                                     *)
(***************************************************************************)
\* process_rtp_packet up to the stream lookup; init_quality_params gives a
\* new stream its audio context.
RtpCreateStep ==
    /\ ~breakloop
    /\ lookups < MaxStreamPackets
    /\ lookups' = lookups + 1
    /\ \E pair \in AddressPairs, ssrc \in Ssrcs :
          \E r \in {FindOrCreateStream(streams, pair[1], pair[2], ssrc,
                                       GetPacketDirection(pair[1], pair[2]))} :
              /\ streams' = r.table
              /\ lookup' = [ssrc |-> ssrc,
                            direction |-> GetPacketDirection(pair[1], pair[2]),
                            src_ip |-> pair[1], dst_ip |-> pair[2], slot |-> r.slot]
              /\ audio_ctxs' = audio_ctxs + Len(r.table) - Len(streams)
    /\ UNCHANGED <<pkts, probe, verdict, overflowVars, sdpVars, errVars, qualityVars>>
    /\ UNCHANGED <<global_handle, global_dumper, flushed, shut>>
    /\ UNCHANGED <<now, sipVars, capVars, statVars, jbVars, rtpVars, fecVars, audioVars, timingVars>>

\* The end of start_capture after pcap_loop has returned (cleanup_capture),
\* then cleanup_call_session in main.
ShutdownStep ==
    /\ breakloop
    /\ ~shut
    /\ shut' = TRUE
    /\ flushed' = (global_dumper = "open")
    /\ global_dumper' = "NULL"
    /\ global_handle' = "NULL"
    /\ stream_info' = <<>>
    /\ streams' = <<>>
    /\ UNCHANGED <<audio_ctxs, media_lines, pkts, probe, verdict, overflowVars, lookupVars, errVars, qualityVars>>
    /\ UNCHANGED <<now, sipVars, capVars, statVars, jbVars, rtpVars, fecVars, audioVars, timingVars>>

NextShutdown == RtpCreateStep \/ SignalStep \/ ShutdownStep

SpecShutdown == InitErrors /\ [][NextShutdown]_vars

(***************************************************************************)
(* addresses_match applied to the pairs of three address strings.          *)
(***************************************************************************)
Addresses == V6Addresses \cup V4Addresses \cup {Nat64WellKnown, Nat64Other}

MatchStep ==
    /\ \E a \in Addresses, b \in Addresses, c \in Addresses :
          /\ probe' = <<a, b, c>>
          /\ verdict' = [compared |-> TRUE,
                         aa |-> AddressesMatch(a, a), ab |-> AddressesMatch(a, b),
                         ba |-> AddressesMatch(b, a), bc |-> AddressesMatch(b, c),
                         ac |-> AddressesMatch(a, c)]
    /\ UNCHANGED <<streams, pkts>>
    /\ UNCHANGED <<sessionVars, now, sipVars, capVars, statVars, jbVars, rtpVars, fecVars, audioVars, timingVars>>

NextMatch == MatchStep

SpecMatch == Init /\ [][NextMatch]_vars

(***************************************************************************)
(* The timing of the packets process_rtp_packet passes on, in sequence     *)
(* from 100: update_jitter_metrics, then update_stream_stats.              *)
(***************************************************************************)
TransitOffsets == {0, 80}

JitterStep ==
    /\ timing.jitter.exp < MaxJitterUpdates - 1
    /\ \E packet_time \in {last_time, last_time + 1} \cap (1 .. MaxPacketTime),
          offset \in TransitOffsets :
          LET timestamp == packet_time * CLOCK_RATE - offset
          IN  /\ timing' = StreamStatsTiming(
                               UpdateJitterMetrics(timing, timestamp, packet_time),
                               stream, timestamp, packet_time)
              /\ stream' = UpdateStreamStats(stream, 100 + stream.packets_received)
              /\ wire_transit' = offset
              /\ last_time' = packet_time
    /\ UNCHANGED <<first_in, last_in, inorder, increasing, missing, run, wraps>>
    /\ UNCHANGED <<sessionVars, now, sipVars, capVars, jbVars, rtpVars, fecVars, audioVars, tableVars>>

NextJitter == JitterStep

SpecJitter == Init /\ [][NextJitter]_vars

(***************************************************************************)
(* Claims about the sequence accounting (checked under SpecStats).         *)
(***************************************************************************)
Fed == stream.packets_received

\* C1: after N >= 1 packets with consecutive sequence numbers fed to a fresh
\* stream, received = N, lost_packets = 0 and out_of_order = 0.
C1_SequenceAccounting ==
    (Fed >= 1 /\ inorder) =>
        /\ stream.received = Fed
        /\ stream.lost_packets = 0
        /\ stream.out_of_order = 0

\* C6: after 65534, 65535, 0, 1, 2 fed to a fresh stream, lost_packets = 0
\* and cycles records exactly one wrap of 2^16.
C6_WrapSafety ==
    (first_in = 65534 /\ inorder /\ Fed = 5) =>
        /\ stream.lost_packets = 0
        /\ stream.cycles = RTP_SEQ_MOD

\* The step feeds a packet to a stream that is on probation.
FedOnProbation == stream.packets_received >= 1 /\ stream.probation # 0
                      /\ stream'.packets_received = stream.packets_received + 1

\* The arrival is its predecessor plus 1 modulo 2^16.
ConsecutiveArrival == last_in' = U16(last_in + 1)

\* C7: on probation a non-consecutive arrival leaves lost_packets unchanged
\* and resets probation to MIN_SEQUENTIAL - 1; apart from such a reset,
\* probation decreases only on an arrival that is its predecessor plus 1
\* modulo 2^16; MIN_SEQUENTIAL consecutive arrivals after the one that began
\* the run, also when the run crosses 65535 to 0, end probation with base_seq
\* the last sequence number of the run.
C7_Probation ==
    [][FedOnProbation =>
         /\ ~ConsecutiveArrival =>
               /\ stream'.lost_packets = stream.lost_packets
               /\ stream'.probation = MIN_SEQUENTIAL - 1
         /\ stream'.probation < stream.probation =>
               \/ ConsecutiveArrival
               \/ stream'.probation = MIN_SEQUENTIAL - 1
         /\ run' >= MIN_SEQUENTIAL + 1 =>
               /\ stream'.probation = 0
               /\ stream'.base_seq = last_in']_vars

\* C8: packets arriving in increasing sequence order with k >= 1 numbers
\* missing in total leave lost_packets = k once the stream has left
\* probation; 65530..65535, 1, 2, 3 leaves one counted cycle and
\* lost_packets = 1.
C8_LossCounting ==
    /\ (increasing /\ missing >= 1 /\ Fed > 1 /\ stream.probation = 0) =>
          stream.lost_packets = missing
    /\ (increasing /\ first_in = 65530 /\ last_in = 3
           /\ Fed = 9 /\ missing = 1) =>
          /\ stream.cycles = RTP_SEQ_MOD
          /\ stream.lost_packets = 1

(***************************************************************************)
(* Claims about the jitter buffer (checked under SpecJb).                  *)
(***************************************************************************)
BufferSorted ==
    \A i \in 0 .. ctx.buffer_size - 2 :
        Slot(ctx, EntryIdx(ctx, i)).expected_play_time
            <= Slot(ctx, EntryIdx(ctx, i + 1)).expected_play_time

\* C2: after any accepted inserts the buffer_size entries from read_ptr are
\* sorted by expected_play_time ascending, and packets are handed out in
\* non-decreasing expected_play_time.
C2_JitterBufferOrder == BufferSorted /\ out_sorted

(***************************************************************************)
(* Claims about the reorder buffer and the accounting (under SpecRtp).     *)
(***************************************************************************)
ReorderDelivered == script = ReorderScript /\ delivered = Len(ReorderScript)

\* C9: after 100..110 were delivered as 100, 101, 103, 102, 104, ..., 110 the
\* stream has received = 11, out_of_order >= 1 and lost_packets = 0.
C9_ReorderingWithinWindow ==
    ReorderDelivered =>
        /\ stream.received = Len(ReorderScript)
        /\ stream.out_of_order >= 1
        /\ stream.lost_packets = 0


\* One frame of a PCMU stream in milliseconds.
FrameMs == (SAMPLES_PER_FRAME * 1000) \div CLOCK_RATE

\* Every packet of the stream with one dropped packet has been processed.
DropProcessed ==
    /\ script = DropScript
    /\ delivered = Len(DropScript)
    /\ stream.packets_received = Len(DropScript)

\* C14: concealed_ms is the sum over the sequence gaps of
\* gap * samples_per_frame * 1000 / clock_rate; one dropped packet of a PCMU
\* stream leaves concealed_ms at 20 or more.
C14_ConcealedDuration == DropProcessed => stream.concealed_ms >= FrameMs

\* recover_lost_packet has run for the one missing member of the group
\* 1 .. FEC_PACKET_INTERVAL, whose payloads all have the same length.
OneMemberMissing ==
    /\ fec_lost # 0
    /\ recovered # <<>>
    /\ Len(sent) = FEC_PACKET_INTERVAL
    /\ Held = (1 .. FEC_PACKET_INTERVAL) \ {fec_lost}
    /\ \A i, j \in DOMAIN sent : Len(sent[i]) = Len(sent[j])

\* C15: with exactly one member of an FEC group missing, recover_lost_packet
\* reconstructs that member's payload byte for byte (equal-length payloads).
C15_FecRoundTrip == OneMemberMissing => recovered = sent[fec_lost]

\* The step is a call of audio_quality_process_packet.
AudioCall == audio_calls' = audio_calls + 1

\* C16: the second delivery of a sequence number is counted as one lost
\* packet and the packet is relabelled last_sequence + 1 before it is inserted.
C16_DuplicateRelabelled ==
    [][(AudioCall /\ audio_in' = audio_in /\ audio_ret = 0 /\ audio_ret' = 0) =>
          /\ ctx'.packets_lost = ctx.packets_lost + 1
          /\ labelled' = U16(last_sequence + 1)]_vars

\* More than a tenth of the packets delivered to the audio engine are counted
\* as lost by it.
LossAboveTenPercent == audio_calls > 0 /\ ctx.packets_lost * 10 > audio_calls

\* C19: while the loss rate, driven by the packets the audio engine counts as
\* lost, is above 10%, every encode lowers the encoder bitrate by 1 kbps down
\* to the 6 kbps floor.
C19_BitrateFollowsLoss ==
    [][(AudioCall /\ EncoderReached(audio_size') /\ LossAboveTenPercent) =>
          bitrate' = IF bitrate - BITRATE_ADJUSTMENT_STEP < MIN_BITRATE
                     THEN MIN_BITRATE
                     ELSE bitrate - BITRATE_ADJUSTMENT_STEP]_vars

\* C17: a stream first seen with source 2001:db8:64::c0a8:101 keeps every
\* later packet of the same SSRC whose source is the embedded 192.168.1.1 in
\* the same stream record.
C17_Nat64Pairing ==
    \A j \in DOMAIN pkts :
        (/\ pkts[1].src_ip = Nat64Doc
         /\ pkts[j].ssrc = pkts[1].ssrc
         /\ pkts[j].src_ip = EmbeddedV4) => pkts[j].slot = pkts[1].slot

\* C18: addresses_match is reflexive, symmetric and transitive over plain and
\* NAT64-prefixed address strings.
C18_MatchIsEquivalence ==
    verdict.compared =>
        /\ verdict.aa
        /\ verdict.ab => verdict.ba
        /\ (verdict.ab /\ verdict.bc) => verdict.ac

\* A NAT64-prefixed address has been compared with itself and with the plain
\* form of the IPv4 address it embeds.
C18_Witness ==
    /\ verdict.compared
    /\ probe = <<Nat64Doc, Nat64Doc, EmbeddedV4>>
    /\ verdict.ab

\* The step processes a packet whose transit equals that of the packet before.
SameTransitPacket ==
    /\ stream.packets_received > 0
    /\ stream'.packets_received = stream.packets_received + 1
    /\ wire_transit' = wire_transit

\* C20: while consecutive packets have the same transit, no processed packet
\* raises the stream's jitter estimate (each multiplies it by 15/16).
C20_JitterDecays ==
    [][SameTransitPacket => JitterLeq(timing'.jitter, timing.jitter)]_vars

(***************************************************************************)
(* C21: a dequeue that finds the head packet too late signals concealment  *)
(* and drops that packet, so buffer_size decreases by 1.                   *)
(***************************************************************************)
LateDequeue ==
    /\ asked' = asked + 1
    /\ ctx.buffer_size > 0
    /\ ctx'.plc_duration_ms = ctx.plc_duration_ms + PLC_FRAME_MS

C21_LatePacketDropped ==
    [][LateDequeue => ctx'.buffer_size = ctx.buffer_size - 1]_vars


(***************************************************************************)
(* C22: the jitter buffer never holds more than 1000 packets; an insertion *)
(* into a full buffer returns -1, adds exactly 1 to stats.packets_lost and *)
(* leaves the stored packets, read_ptr, write_ptr and buffer_size as they  *)
(* were.                                                                   *)
(***************************************************************************)
InsertCall == inserted' = inserted + 1

BufferFull == ctx.buffer_size >= MAX_JITTER_BUFFER_PACKETS

C22_OverflowRejected ==
    [][InsertCall =>
          /\ ctx'.buffer_size <= MAX_JITTER_BUFFER_PACKETS
          /\ BufferFull =>
                /\ insert_ret' = -1
                /\ ctx' = [ctx EXCEPT !.packets_lost = ctx.packets_lost + 1]]_vars

C22_Witness ==
    /\ insert_ret = -1
    /\ ctx.buffer_size = MAX_JITTER_BUFFER_PACKETS
    /\ ctx.packets_lost = 1
    /\ inserted = MAX_JITTER_BUFFER_PACKETS + 1


(***************************************************************************)
(* C23: at most 8 RTP streams are active; when all 8 slots are active, a   *)
(* packet whose key (SSRC, direction, source and destination address)      *)
(* equals that of no record gets no stream (NULL) and no record changes.   *)
(***************************************************************************)
LookupCall == lookups' = lookups + 1

TableFull == Len(streams) = MAX_RTP_STREAMS

KeyUnknown ==
    \A i \in DOMAIN streams :
        \/ streams[i].ssrc # lookup'.ssrc
        \/ streams[i].direction # lookup'.direction
        \/ streams[i].src_ip # lookup'.src_ip
        \/ streams[i].dst_ip # lookup'.dst_ip

C23_StreamTableBound ==
    [][LookupCall =>
          /\ Len(streams') <= MAX_RTP_STREAMS
          /\ (TableFull /\ KeyUnknown) => (lookup'.slot = 0 /\ streams' = streams)]_vars

C23_Witness ==
    /\ Len(streams) = MAX_RTP_STREAMS
    /\ lookups > MAX_RTP_STREAMS
    /\ lookup.slot = 0
    /\ lookup.ssrc = MAX_RTP_STREAMS + 1


(***************************************************************************)
(* C24: each m=audio line of an SDP body creates its own descriptor: after *)
(* SIP messages containing k such lines in total the session stores        *)
(* min(8, k) descriptors.                                                  *)
(***************************************************************************)
C24_DescriptorPerMediaLine ==
    Len(stream_info) = IF media_lines < MAX_RTP_STREAMS THEN media_lines
                       ELSE MAX_RTP_STREAMS


(***************************************************************************)
(* C25: the capture callback stops the run because of invalid frames only  *)
(* after 10 consecutive failures of the same class; failures separated by  *)
(* a handled frame, or of different classes, are not added together.       *)
(***************************************************************************)
ErrorStop == ~breakloop /\ breakloop' /\ fail_class' # "none"

C25_ErrorRail == [][ErrorStop => fail_run' >= MAX_ERRORS]_vars


(***************************************************************************)
(* C26: both asynchronous stop sources, the operator signals and the       *)
(* time-budget alarm, set the stopping flag and ask the packet source to   *)
(* unblock; the stopping flag is never cleared once set.                   *)
(***************************************************************************)
AsyncStop == ~breakloop /\ breakloop' /\ total_packets' = total_packets

C26_AsyncStopsSetFlag ==
    [][/\ AsyncStop => capture_stopping'
       /\ capture_stopping => capture_stopping']_vars


(***************************************************************************)
(* C27: after a stop request and shutdown the capture output has been      *)
(* flushed and closed, the packet source is closed, and every stream that  *)
(* was created has had its audio context released.                         *)
(***************************************************************************)
C27_CancellationReleasesAll ==
    (capture_stopping /\ shut) =>
        /\ flushed
        /\ global_dumper = "NULL"
        /\ global_handle = "NULL"
        /\ audio_ctxs = 0


(***************************************************************************)
(* C28: in auto mode, once the dialog was terminated by SIP signalling and *)
(* 60 s have elapsed without further signalling, the completion check run  *)
(* for a frame reports that the capture should stop.                       *)
(***************************************************************************)
FrameCall == frames' = frames + 1

CallFinishedLongAgo ==
    /\ dialog_state' = DIALOG_TERMINATED
    /\ last_sip_seen' > 0
    /\ now - last_sip_seen' >= SETUP_TIMEOUT

C28_AutoStopsAfterCall ==
    [][(FrameCall /\ auto_mode /\ CallFinishedLongAgo) => breakloop']_vars

(***************************************************************************)
(* C29: with auto mode off, a stalled call setup (dialog TRYING, no        *)
(* further SIP messages) never stops the capture; with auto mode on it     *)
(* does so only after AUTO_MODE_TIMEOUT (300 s) without signalling.        *)
(***************************************************************************)
StallStop ==
    /\ FrameCall
    /\ breakloop'
    /\ dialog_state' = DIALOG_TRYING
    /\ ~RtpInactive(now, last_rtp_seen')

C29_SetupStallAutoOnly ==
    [][StallStop => (auto_mode /\ now - last_sip_seen' >= AUTO_MODE_TIMEOUT)]_vars


(***************************************************************************)
(* C30: a valid RTP packet whose sequence number is the last processed     *)
(* sequence of its stream plus 1 is eligible at once: process_rtp_packet   *)
(* hands it to update_stream_stats in the same call and does not hold it   *)
(* in the reorder buffer.                                                  *)
(***************************************************************************)
NextInOrder ==
    /\ delivered' = delivered + 1
    /\ last_in # -1
    /\ script[delivered'] = U16(last_in + 1)

HeldInReorderBuffer(seq) ==
    \E i \in DOMAIN reorder_buffer' :
        reorder_buffer'[i].valid /\ reorder_buffer'[i].seq = seq

C30_InOrderEligibleAtOnce ==
    [][NextInOrder =>
          /\ last_in' = script[delivered']
          /\ total_packets' = total_packets + 1
          /\ ~HeldInReorderBuffer(script[delivered'])]_vars


(***************************************************************************)
(* SpecReorder: the packets of one stream handed to process_rtp_packet     *)
(* while the clock advances between them.                                  *)
(***************************************************************************)
ReorderWaitStep ==
    /\ now + MAX_REORDER_WAIT_MS <= MaxReorderTime
    /\ now' = now + MAX_REORDER_WAIT_MS
    /\ UNCHANGED <<sipVars, capVars, mediaVars>>

InitReorder == InitRtpRun /\ script \in {FromOneScript, DropScript}

NextReorder == RtpStep \/ ReorderWaitStep

SpecReorder == InitReorder /\ [][NextReorder]_vars

(***************************************************************************)
(* C31: every packet stored in the reorder buffer is eventually processed  *)
(* or discarded and its slot released, at the latest once it has waited    *)
(* MAX_REORDER_WAIT_MS and a further packet arrives.                       *)
(***************************************************************************)
WaitedLongEnough(i) ==
    /\ reorder_buffer[i].valid
    /\ now - reorder_buffer[i].arrival_time >= MAX_REORDER_WAIT_MS

C31_BoundedReorderWait ==
    [][delivered' = delivered + 1 =>
          \A i \in DOMAIN reorder_buffer :
              WaitedLongEnough(i) => ~reorder_buffer'[i].valid]_vars


(***************************************************************************)
(* Loss accounting for every arrival order (checked under SpecStats).      *)
(* lost_packets is a uint32_t; the model keeps the difference the code     *)
(* computes, so a value below zero stands for the counter wrapped to       *)
(* 2^32 plus that value.                                                   *)
(***************************************************************************)
\* The stream has left probation and counted at least one packet since.
ProbationCleared == stream.probation = 0 /\ stream.received >= 1

\* C32: once probation has cleared, lost_packets is expected - received and
\* is never negative (the unsigned counter never wraps below zero), for
\* every arrival order including late, duplicate and reordered packets.
C32_LossNeverNegative == ProbationCleared => stream.lost_packets >= 0

(***************************************************************************)
(* SpecClock: the clock rate and the timestamp validation of one stream    *)
(* (process_rtp_packet).  Packet times are the seconds of the pcap header. *)
(* Whether handle_out_of_sequence lets the packet through is decided by    *)
(* the reorder window modelled in SpecRtp; here it is an input of the      *)
(* step.  The timestamps of the model keep every sum within                *)
(* 0 .. 2^31 - 1, where the uint32_t arithmetic of the code is exact.      *)
(***************************************************************************)
PayloadTypes == {0, 8, 9, 96}

\* find_or_create_stream on a free slot: memset, the payload type of the
\* packet, then init_quality_params.
NewClock(pt) ==
    [active |-> TRUE, payload_type |-> pt, clock_rate |-> CLOCK_RATE,
     last_timestamp |-> 0, last_packet_time |-> 0, corrected_timestamps |-> 0]

\* The switch of process_rtp_packet on the payload type, taken while the
\* clock rate is 0.
SetClockRate(c, pt) ==
    IF c.clock_rate # 0 THEN c
    ELSE [c EXCEPT !.clock_rate = IF pt = 9 THEN 2 * CLOCK_RATE ELSE CLOCK_RATE]

\* validate_rtp_timestamp(stream, &timestamp, packet_time): the timestamp
\* left in *timestamp and the stream afterwards.
ValidateRtpTimestamp(c, ts, packet_time) ==
    IF c.last_timestamp = 0 THEN [ts |-> ts, clock |-> c]
    ELSE LET expected_ts == c.last_timestamp
                               + (c.clock_rate \div 1000)
                                   * (packet_time - c.last_packet_time * 1000)
             max_deviation == (c.clock_rate \div 1000) * 10
             diff == IF ts > expected_ts THEN ts - expected_ts ELSE expected_ts - ts
             pattern_interval == c.clock_rate \div 50
         IN  IF diff > max_deviation /\ (diff % pattern_interval) > max_deviation
             THEN [ts |-> expected_ts,
                   clock |-> [c EXCEPT !.corrected_timestamps = @ + 1]]
             ELSE [ts |-> ts, clock |-> c]

\* The timestamp update_stream_stats leaves in last_timestamp: the first
\* packet and a packet of a validated source store theirs, a packet on
\* probation returns before the assignment.
StatsTimestamp(s, c, ts) ==
    IF s.packets_received = 0 \/ s.probation = 0 THEN ts ELSE c.last_timestamp

\* The RTP timestamps offered for the n-th packet: 20 ms of samples after
\* its predecessor, or 100 samples later still.
TsInputs(n) == {32000 + SAMPLES_PER_FRAME * n, 32000 + SAMPLES_PER_FRAME * n + 100}

\* process_rtp_packet for the next packet of the stream.
ClockStep ==
    /\ ts_check.n < MaxClockPackets
    /\ \E pt \in PayloadTypes, ts \in TsInputs(ts_check.n),
          packet_time \in {ts_check.packet_time, ts_check.packet_time + 1},
          passes \in BOOLEAN :
          /\ packet_time <= MaxClockTime
          /\ \E c0 \in {SetClockRate(IF rtp_clock.active THEN rtp_clock
                                      ELSE NewClock(pt), pt)} :
             \E v1 \in {ValidateRtpTimestamp(c0, ts, packet_time)} :
             \E v2 \in {ValidateRtpTimestamp(v1.clock, v1.ts, packet_time)} :
                /\ ts_check' = [n |-> ts_check.n + 1,
                                called |-> c0.last_timestamp # 0,
                                last_timestamp |-> c0.last_timestamp,
                                elapsed |-> packet_time - c0.last_packet_time,
                                ts_in |-> ts,
                                ts_out |-> v1.ts,
                                corrections |->
                                    (IF passes THEN v2 ELSE v1).clock.corrected_timestamps
                                        - c0.corrected_timestamps,
                                packet_time |-> packet_time]
                /\ IF passes
                   THEN /\ rtp_clock' =
                              [v2.clock EXCEPT
                                 !.last_packet_time = packet_time,
                                 !.last_timestamp = StatsTimestamp(stream, v2.clock, v2.ts)]
                        /\ stream' = UpdateStreamStats(stream, 100 + ts_check.n)
                   ELSE /\ rtp_clock' = v1.clock
                        /\ UNCHANGED stream
    /\ UNCHANGED <<first_in, last_in, inorder, increasing, missing, run, wraps>>
    /\ UNCHANGED <<now, sipVars, capVars, jbVars, rtpVars, extraVars, overflowVars,
                   lookupVars, sdpVars, errVars, shutVars, playoutVars, encoderVars, isoVars>>

NextClock == ClockStep

SpecClock == Init /\ [][NextClock]_vars

\* The clock rate the payload type of the first packet calls for.
RateOfPayload(pt) == IF pt = 9 THEN 16000 ELSE 8000

\* C33: a new stream's clock rate is set from the payload type of its first
\* packet (8000 for PCMU and PCMA, 16000 for G.722, 8000 otherwise) and
\* never changes afterwards.
C33_ClockRateFromFirstPacket ==
    rtp_clock.active => rtp_clock.clock_rate = RateOfPayload(rtp_clock.payload_type)

\* C36: validate_rtp_timestamp expects last_ts + (clock_rate / 1000) *
\* elapsed_ms, elapsed_ms being the milliseconds between the previous and
\* the current arrival; a timestamp deviating by more than 10 ms of samples
\* is kept when the deviation modulo a 20 ms frame is within that tolerance,
\* and is otherwise replaced by the expected value with corrected_timestamps
\* incremented once.
C36_TimestampValidation ==
    ts_check.called =>
        LET per_ms == rtp_clock.clock_rate \div 1000
            expected == ts_check.last_timestamp + per_ms * (ts_check.elapsed * 1000)
            deviation == IF ts_check.ts_in > expected THEN ts_check.ts_in - expected
                         ELSE expected - ts_check.ts_in
            wrong == /\ deviation > per_ms * 10
                     /\ (deviation % (rtp_clock.clock_rate \div 50)) > per_ms * 10
        IN  /\ ts_check.ts_out = IF wrong THEN expected ELSE ts_check.ts_in
            /\ ts_check.corrections = IF wrong THEN 1 ELSE 0

(***************************************************************************)
(* SpecPlayout: the playout delay of an audio context.  adaptive_delay is  *)
(* kept in microseconds, as audio_quality_init_with_config sets it.        *)
(* stats.current_jitter is assigned nowhere, so the jitter term of the     *)
(* target is 0.                                                            *)
(***************************************************************************)
\* The target delay adjust_playout_delay computes, after clamping.
TargetDelay(p) ==
    LET target_delay == TARGET_DELAY_MS + (IF p.plc_used THEN 5 ELSE 0)
    IN  IF target_delay < MIN_DELAY_MS THEN MIN_DELAY_MS
        ELSE IF target_delay > MAX_DELAY_MS THEN MAX_DELAY_MS
        ELSE target_delay

\* adjust_playout_delay(ctx)
AdjustPlayoutDelay(p) ==
    IF TargetDelay(p) > p.adaptive_delay THEN p.adaptive_delay + 2000
    ELSE IF TargetDelay(p) < p.adaptive_delay THEN p.adaptive_delay - 1000
    ELSE p.adaptive_delay

AdjustStep ==
    /\ playout.calls < MaxAdjusts
    /\ playout' = [playout EXCEPT !.adaptive_delay = AdjustPlayoutDelay(playout),
                                  !.calls = @ + 1]
    /\ UNCHANGED <<now, sipVars, capVars, statVars, jbVars, rtpVars, extraVars,
                   overflowVars, lookupVars, sdpVars, errVars, shutVars, clockVars,
                   encoderVars, isoVars>>

\* A lost packet is concealed: stats.plc_used is set and never cleared.
PlcUsedStep ==
    /\ ~playout.plc_used
    /\ playout' = [playout EXCEPT !.plc_used = TRUE]
    /\ UNCHANGED <<now, sipVars, capVars, statVars, jbVars, rtpVars, extraVars,
                   overflowVars, lookupVars, sdpVars, errVars, shutVars, clockVars,
                   encoderVars, isoVars>>

NextPlayout == AdjustStep \/ PlcUsedStep

SpecPlayout == Init /\ [][NextPlayout]_vars

\* C34: adjust_playout_delay clamps the target to [min_delay_ms,
\* max_delay_ms] and compares it with the current delay in the same unit:
\* the current delay rises by 2 ms when it is below the target, falls by
\* 1 ms when it is above and stays when they are equal; a current delay of
\* 40 ms below its target rises.
C34_PlayoutDelayAdjustment ==
    [][playout'.calls = playout.calls + 1 =>
         LET target_us == TargetDelay(playout) * 1000
             current == playout.adaptive_delay
         IN  /\ TargetDelay(playout) \in MIN_DELAY_MS .. MAX_DELAY_MS
             /\ current < target_us => playout'.adaptive_delay = current + 2000
             /\ current > target_us => playout'.adaptive_delay = current - 1000
             /\ current = target_us => playout'.adaptive_delay = current]_vars

(***************************************************************************)
(* SpecBitrate: the bitrate of an Opus encoder over successive encodes.    *)
(* The encoder starts at the bitrate of the configuration handed to       *)
(* audio_quality_init_with_config.  stats.packet_loss_rate, which          *)
(* update_opus_bitrate reads, is assigned by no code of the repository;    *)
(* each encode draws the rate it reads, in thousandths, so that the three  *)
(* branches of the adjustment run.                                         *)
(***************************************************************************)
StartBitrates == {MIN_BITRATE, 6500, 32000, 63500, MAX_BITRATE}

LossRates == {0, 9, 10, 50, 100, 101, 500}

\* audio_quality_init_with_config with a configuration of its own: the
\* encoder is set to config->opus.bitrate.
ConfigureStep ==
    /\ encoder.encodes = 0
    /\ encoder.bitrate = CONFIG_BITRATE
    /\ \E b \in StartBitrates \ {CONFIG_BITRATE} :
          encoder' = [encoder EXCEPT !.bitrate = b]
    /\ UNCHANGED <<now, sipVars, capVars, statVars, jbVars, rtpVars, extraVars,
                   overflowVars, lookupVars, sdpVars, errVars, shutVars, clockVars,
                   playoutVars, isoVars>>

\* process_opus_encode(ctx, input, input_size, output, max_output_size)
EncodeStep ==
    /\ encoder.encodes < MaxEncodes
    /\ \E input_size \in PayloadSizes, loss_rate \in LossRates :
          encoder' = [bitrate |-> IF EncoderReached(input_size)
                                  THEN UpdateOpusBitrate(encoder.bitrate, loss_rate)
                                  ELSE encoder.bitrate,
                      loss_rate |-> loss_rate,
                      encodes |-> encoder.encodes + 1,
                      reached |-> EncoderReached(input_size)]
    /\ UNCHANGED <<now, sipVars, capVars, statVars, jbVars, rtpVars, extraVars,
                   overflowVars, lookupVars, sdpVars, errVars, shutVars, clockVars,
                   playoutVars, isoVars>>

NextBitrate == ConfigureStep \/ EncodeStep

SpecBitrate == Init /\ [][NextBitrate]_vars

\* The step is an encode that reaches the encoder.
EncodeDone == encoder'.encodes = encoder.encodes + 1 /\ encoder'.reached

C37_JitterBufferConservation ==
    /\ ctx.write_ptr = (ctx.read_ptr + ctx.buffer_size) % MAX_JITTER_BUFFER_PACKETS
    /\ \A i \in 0 .. ctx.buffer_size - 1 : EntryIdx(ctx, i) \in DOMAIN ctx.buffer

\* The step is a dequeue that finds the head too late and conceals it.
ConcealmentRuns == asked' = asked + 1 /\ ctx'.packets_lost = ctx.packets_lost + 1

\* C40: whenever apply_packet_loss_concealment runs on a context created by
\* audio_quality_init, the too-late path of audio_quality_get_next_packet
\* included, the sample rate by which it divides is not zero.
C40_ConcealmentNeverFaults ==
    [][ConcealmentRuns => ConcealDivisor(ctx) # 0]_vars

\* C39: a packet to or from port 5060 that is processed as SIP is not also
\* processed as RTP: it never creates or updates an RTP stream (the session
\* counts the frame once) and never refreshes last_rtp_seen.
C39_ExclusiveDispatch ==
    [][IsSipCall =>
          /\ last_rtp_seen' = last_rtp_seen
          /\ total_packets' = total_packets + 1]_vars

(***************************************************************************)
(* SpecIsolation: the packets of the scripted stream interleaved with      *)
(* packets of a second stream of the same session.  reorder_buffer and     *)
(* reorder_head are file-scope statics, one for all streams.  solo runs    *)
(* the packets of the scripted stream, with the same capture times,        *)
(* through a reorder buffer no other stream touches.                       *)
(***************************************************************************)
OtherSeqs == {2, 300}

\* process_rtp_packet for one packet on a stream s with the reorder buffer
\* buf: the stream and the buffer it leaves, and whether it counted the packet.
RtpPacketOn(s, buf, head, seq, arrival) ==
    LET h == HandleOutOfSequence(s, buf, head, seq, arrival, now)
    IN  [stream |-> IF h.process
                    THEN UpdateStreamStats(HandleSilenceInsertion(s, seq), seq)
                    ELSE s,
         buffer |-> h.buffer, head |-> h.head, process |-> h.process]

\* The next packet of the scripted stream.
OwnPacketStep ==
    /\ delivered < Len(script)
    /\ delivered' = delivered + 1
    /\ \E lag \in Lags :
          /\ ProcessRtpPacket(script[delivered + 1], now - lag)
          /\ \E r \in {RtpPacketOn(solo.stream, solo.buffer, solo.head,
                                   script[delivered + 1], now - lag)} :
                solo' = [stream |-> r.stream, buffer |-> r.buffer, head |-> r.head]
    /\ UNCHANGED <<script, now, sipVars, jbVars, extraVars, other>>
    /\ UNCHANGED <<overflowVars, lookupVars, sdpVars, errVars, shutVars, clockVars,
                   playoutVars, encoderVars>>
    /\ UNCHANGED <<first_in, inorder, increasing, missing, run, wraps>>
    /\ UNCHANGED <<sip_state, start_time, last_status_check, error_count, auto_mode,
                   capture_time, capture_stopping, breakloop, clean_pos>>

\* A packet of the second stream.
OtherPacketStep ==
    /\ other.fed < MaxOtherPackets
    /\ \E seq \in OtherSeqs, lag \in Lags :
          \E r \in {RtpPacketOn(other.stream, reorder_buffer, reorder_head,
                                seq, now - lag)} :
             /\ other' = [stream |-> r.stream, fed |-> other.fed + 1]
             /\ reorder_buffer' = r.buffer
             /\ reorder_head' = r.head
             /\ last_rtp_seen' = IF r.process THEN now - lag ELSE last_rtp_seen
             /\ total_packets' = IF r.process THEN total_packets + 1 ELSE total_packets
    /\ UNCHANGED <<script, delivered, now, sipVars, statVars, jbVars, extraVars, solo>>
    /\ UNCHANGED <<overflowVars, lookupVars, sdpVars, errVars, shutVars, clockVars,
                   playoutVars, encoderVars>>
    /\ UNCHANGED <<sip_state, start_time, last_status_check, error_count, auto_mode,
                   capture_time, capture_stopping, breakloop, clean_pos>>

NextIsolation == OwnPacketStep \/ OtherPacketStep

SpecIsolation == InitReorder /\ [][NextIsolation]_vars

\* C38: whether a packet of stream A is processed, held or dropped does not
\* depend on packets of a different stream B interleaved with it: for any
\* interleaving, the statistics of A equal those obtained when the packets
\* of A are fed alone.
C38_StreamIsolation == stream = solo.stream
====
